---- MODULE Spec2Model ----
(***************************************************************************)
(* Real-time presence and broadcast engine of the chat server:             *)
(*   src/routes.ts   WebSocket handlers, broadcast routers, REST handlers  *)
(*   src/storage.ts  MemStorage (identity store, message log, votes)       *)
(* Every handler runs await by await.  A storage method runs when it is    *)
(* called; what it returned reaches the handler when the await resumes.    *)
(* The action named after a handler is its first segment, from the arrival *)
(* of the request, frame or event to the first await; the actions named    *)
(* <Handler>After<Call> each run one more segment.  pending holds the      *)
(* handlers suspended at an await.  Next lets the segments of different    *)
(* handlers interleave freely.  The other specifications add how Node      *)
(* schedules them over MemStorage: an await on a MemStorage method resumes *)
(* in the same turn of the event loop, so a handler gives way to the start *)
(* of another one only at bcrypt and at the session store, or to the       *)
(* frames that came in one chunk on its own socket.                        *)
(***************************************************************************)
EXTENDS Integers, FiniteSets, Sequences, Bags, TLC

\* ---------------------------------------------------------------- bounds
MaxUsers == 2
MaxConns == 2
MaxMessages == 1
MaxClock == 8
MaxVotes == 1
MaxBacklog == 1
\* handlers suspended at an await at one time
MaxCalls == 2
\* browser sessions (cookies)
MaxSessions == 2

\* ------------------------------------------------------ program constants
RetentionDays == 7
\* the voting period of the seeded proposal, in days
VotePeriod == 3

NULL == "null"
RESERVED == "3.4.12"
\* the access codes initializeDefaultData puts in the store
DefaultCodes == {"3.4.12", "333", "444", "555", "777"}
\* access codes offered to /api/code-access: default codes, and one the store
\* does not hold until somebody creates it
CodeInputs == {"3.4.12", "444", "777"}
UnknownCode == "000"
PaddedCode == " 000 "
\* message bodies, as sequences of characters
Bodies == {<<"h", "i">>}
\* bodies that are empty, blank, or padded with white space
IngressBodies == Bodies \cup {<< >>, <<" ">>, <<" ", "h", "i", " ">>}

\* the choice of a cast request: the body's vote field is not validated
Choices == {"yes", "no", "maybe"}
\* proposal ids a cast request can name: the sample, and those created later
VoteIds == 1..(MaxVotes + 1)
\* the ranks a rank update can ask for
RankInputs == {0, 5}

UserIds == 1..MaxUsers
ConnIds == 1..MaxConns
SessionIds == 1..MaxSessions
NoUser == [id |-> 0]

\* usernames, as sequences of characters: one name per identity the store can
\* hold, and one of them padded with white space
Letters == <<"a", "b", "c", "d">>
NameOf(n) == <<Letters[n]>>
Names == {NameOf(n) : n \in UserIds}
NameInputs == Names \cup {<<"a", " ">>}

\* e-mail addresses: local part and domain.  /api/old-login makes the address
\* `${username}@legacy.local`
EmailOf(n) == [local |-> NameOf(n), domain |-> "mail.test"]
legacyEmail(username) == [local |-> username, domain |-> "legacy.local"]
Emails == {EmailOf(n) : n \in UserIds}
EmailInputs == Emails \cup {legacyEmail(NameOf(1))}

\* passwords, and what bcrypt.hash makes of them; bcrypt.compare accepts a
\* password against its own hash only
Passwords == {"secret", "sesame"}
Hash(password) == [secret |-> "bcrypt(secret)", sesame |-> "bcrypt(sesame)"][password]
compare(password, passwordHash) == passwordHash = Hash(password)

VARIABLES
  users,             \* MemStorage.users: id -> User
  currentUserId,     \* MemStorage.currentUserId
  messages,          \* MemStorage.messages: id -> MessageWithUser
  currentMessageId,  \* MemStorage.currentMessageId
  wire,              \* per connection, the id of the last newMessage written to it
  sessions,          \* the session store: session -> session.userId (0: none)
  accessCodes,       \* MemStorage.accessCodes: the codes it holds, all active
  conn,              \* every WebSocket: readyState, ws.userId, ws.user
  connectedClients,  \* the registry Map<userId, ws>
  now,               \* wall clock, in days (Date.now())
  out,               \* what the last segment sent: the fan-out and the direct reply
  activeVotes,       \* MemStorage.activeVotes: id -> ActiveVote
  activeVoteUsers,   \* MemStorage.activeVoteUsers: the ballot ledger, key -> choice
  currentVoteId,     \* MemStorage.currentVoteId
  pending            \* the handlers suspended at an await, with their locals

idVars == <<users, currentUserId>>
msgVars == <<messages, currentMessageId, wire>>
sockVars == <<conn, connectedClients>>
\* the proposal store and the ballot ledger
voteVars == <<activeVotes, activeVoteUsers, currentVoteId>>

vars == <<idVars, msgVars, sessions, accessCodes, sockVars, now, out, voteVars,
          pending>>

\* ------------------------------------------------------------- classifier

\* user.accountType === "full" ? null : user.accessCode
PartitionOf(user) == IF user.accountType = "full" THEN NULL ELSE user.accessCode

\* ShouldReceive with the "3.4.12" branch comparing codes for equality only
ShouldReceive_NoBridge(clientUser, senderAccessCode) ==
  LET clientAccessCode == IF clientUser.accountType = "full" THEN NULL
                          ELSE clientUser.accessCode
  IN  IF clientAccessCode = NULL
        THEN senderAccessCode = NULL \/ senderAccessCode = RESERVED
      ELSE clientAccessCode = senderAccessCode

\* ShouldReceive with full-account clients accepting full-account senders only
ShouldReceive_OneWay(clientUser, senderAccessCode) ==
  LET clientAccessCode == IF clientUser.accountType = "full" THEN NULL
                          ELSE clientUser.accessCode
  IN  IF clientAccessCode = NULL
        THEN senderAccessCode = NULL
      ELSE IF clientAccessCode = RESERVED
        THEN senderAccessCode = NULL \/ senderAccessCode = RESERVED
      ELSE clientAccessCode = senderAccessCode

\* the shouldReceive decision of broadcastToAccessCode for one client
ShouldReceive(clientUser, senderAccessCode) ==
  LET clientAccessCode == IF clientUser.accountType = "full" THEN NULL
                          ELSE clientUser.accessCode
  IN  IF clientAccessCode = NULL
        THEN senderAccessCode = NULL \/ senderAccessCode = RESERVED
      ELSE IF clientAccessCode = RESERVED
        THEN senderAccessCode = NULL \/ senderAccessCode = RESERVED
      ELSE clientAccessCode = senderAccessCode

\* the filter callback of getOnlineUsersByAccessCode
OnlineUserFilter(user, accessCode) ==
  IF ~user.isOnline THEN FALSE
  ELSE IF accessCode = NULL
    THEN user.accountType = "full"
         \/ (user.accountType = "code" /\ user.accessCode = RESERVED)
  ELSE IF accessCode = RESERVED
    THEN user.accountType = "full"
         \/ (user.accountType = "code" /\ user.accessCode = RESERVED)
  ELSE user.accountType = "code" /\ user.accessCode = accessCode

\* a history filter that tells limited accounts from full ones, not one code from
\* another
MessageFilter_AnyCode(messageUser, accessCode) ==
  IF accessCode = NULL \/ accessCode = RESERVED
    THEN messageUser.accountType = "full"
         \/ (messageUser.accountType = "code" /\ messageUser.accessCode = RESERVED)
    ELSE messageUser.accountType = "code"

\* the filter callback of getRecentMessagesByAccessCode
MessageFilter(messageUser, accessCode) ==
  IF accessCode = NULL
    THEN messageUser.accountType = "full"
         \/ (messageUser.accountType = "code" /\ messageUser.accessCode = RESERVED)
  ELSE IF accessCode = RESERVED
    THEN messageUser.accountType = "full"
         \/ (messageUser.accountType = "code" /\ messageUser.accessCode = RESERVED)
  ELSE messageUser.accountType = "code" /\ messageUser.accessCode = accessCode

\* ---------------------------------------------------------------- storage

\* String.prototype.trim on a sequence of characters: white space goes from both
\* ends
RECURSIVE trimStart(_)
trimStart(s) == IF s # << >> /\ Head(s) = " " THEN trimStart(Tail(s)) ELSE s

RECURSIVE trimEnd(_)
trimEnd(s) ==
  IF s # << >> /\ s[Len(s)] = " " THEN trimEnd(SubSeq(s, 1, Len(s) - 1)) ELSE s

trim(s) == trimEnd(trimStart(s))

\* String.prototype.trim on the access codes a request can carry
trimCode(code) == IF code = PaddedCode THEN UnknownCode ELSE code

\* users.get(id): NoUser stands for undefined
getUser(us, id) == IF id \in DOMAIN us THEN us[id] ELSE NoUser

getOnlineUsersByAccessCode(us, accessCode) ==
  {id \in DOMAIN us : OnlineUserFilter(us[id], accessCode)}

getRecentMessagesByAccessCode(msgs, accessCode) ==
  {id \in DOMAIN msgs : MessageFilter(msgs[id].user, accessCode)}

\* getUserByUsername: the first identity in insertion order under that username
getUserByUsername(us, username) ==
  LET found == {id \in DOMAIN us : us[id].username = username}
  IN  IF found = {} THEN NoUser
      ELSE us[CHOOSE id \in found : \A other \in found : id <= other]

\* getUserByEmail: the first identity in insertion order under that address
getUserByEmail(us, email) ==
  LET found == {id \in DOMAIN us : us[id].email = email}
  IN  IF found = {} THEN NoUser
      ELSE us[CHOOSE id \in found : \A other \in found : id <= other]

\* getUserCount counting the full accounts only
getUserCount_FullOnly(us) ==
  Cardinality({id \in DOMAIN us : us[id].accountType = "full"})

\* getUserCount
getUserCount(us) == Cardinality(DOMAIN us)

\* createUser: the first identity gets rank 0; every identity starts isOnline
createUser(us, id, username, email, passwordHash, accountType, accessCode, rank) ==
  us @@ (id :> [id |-> id,
                username |-> username,
                email |-> email,
                passwordHash |-> passwordHash,
                accountType |-> accountType,
                accessCode |-> accessCode,
                rank |-> IF Cardinality(DOMAIN us) = 0 THEN 0 ELSE rank,
                isOnline |-> TRUE])

setUserOnlineStatus(us, userId, isOnline) ==
  IF userId \in DOMAIN us
    THEN [us EXCEPT ![userId] = [@ EXCEPT !.isOnline = isOnline]]
    ELSE us

updateUserAccessCode(us, userId, accessCode) ==
  IF userId \in DOMAIN us
    THEN [us EXCEPT ![userId] = [@ EXCEPT !.accessCode = accessCode]]
    ELSE us

updateUserRank(us, userId, newRank) ==
  IF userId \in DOMAIN us
    THEN [us EXCEPT ![userId] = [@ EXCEPT !.rank = newRank]]
    ELSE us

\* { ...user, passwordHash: undefined } once serialised: the field is left out
safeUser(user) == [f \in DOMAIN user \ {"passwordHash"} |-> user[f]]

\* getAccessCodeByCode(code) finds a code, and every code is active
getAccessCodeByCode(codes, code) == code \in codes

\* getRecentMessages: the whole log (it never holds more than the default limit)
getRecentMessages(msgs) == DOMAIN msgs

\* a sweep deleting every message of an earlier day
cleanupOldMessages_Eager(msgs, t) ==
  [id \in {i \in DOMAIN msgs : ~(msgs[i].createdAt < t)} |-> msgs[id]]

\* a sweep that deletes nothing
cleanupOldMessages_Skip(msgs, t) == msgs

\* the ids cleanupOldMessages keeps: it deletes createdAt < now - 7 days
cleanupOldMessages(msgs, t) ==
  [id \in {i \in DOMAIN msgs : ~(msgs[i].createdAt < t - RetentionDays)} |-> msgs[id]]

\* the log has room for one more message once the sweep has run: at most
\* MaxMessages submissions a day, behind at most MaxBacklog messages of earlier days
StoreHasRoom ==
  LET kept == cleanupOldMessages(messages, now)
  IN  /\ Cardinality({i \in DOMAIN kept : kept[i].createdAt = now}) < MaxMessages
      /\ Cardinality({i \in DOMAIN kept : kept[i].createdAt < now}) <= MaxBacklog

\* the second half of createMessage numbering the new message after the messages
\* the log holds
storeMessage_ReuseId(msgs, id, user, content, t) ==
  LET reused == Cardinality(DOMAIN msgs) + 1
  IN  [i \in DOMAIN msgs \cup {reused} |->
         IF i = reused
           THEN [id |-> reused, userId |-> user.id, content |-> content,
                 createdAt |-> t, user |-> user]
           ELSE msgs[i]]

\* the second half of createMessage, after its await on the sweep: the message
\* goes into the log under a new id, with the author createMessage looked up when
\* it was called
storeMessage(msgs, id, user, content, t) ==
  msgs @@ (id :> [id |-> id, userId |-> user.id, content |-> content,
                  createdAt |-> t, user |-> user])

\* the proposal initializeDefaultData puts in the store: counters 8 and 4, and no
\* ballot behind them
sampleVote == [id |-> 1, proposedBy |-> 1, yesVotes |-> 8, noVotes |-> 4,
               endsAt |-> VotePeriod]

createActiveVote(votes, id, proposedBy, endsAt) ==
  votes @@ (id :> [id |-> id, proposedBy |-> proposedBy, yesVotes |-> 0, noVotes |-> 0,
                   endsAt |-> endsAt])

\* the ledger key `${userId}-${voteId}`, one per pair of numbers
BallotKey(userId, voteId) == <<userId, voteId>>

\* hasUserVoted never finding a ballot
hasUserVoted_Never(ballots, userId, voteId) == FALSE

hasUserVoted(ballots, userId, voteId) == BallotKey(userId, voteId) \in DOMAIN ballots

\* castVote writing the counter from the choice alone instead of adding to it
castVote_Overwrite(ballots, votes, userId, voteId, vote) ==
  IF BallotKey(userId, voteId) \in DOMAIN ballots
    THEN [ok |-> FALSE, activeVoteUsers |-> ballots, activeVotes |-> votes]
    ELSE [ok |-> TRUE,
          activeVoteUsers |-> ballots @@ (BallotKey(userId, voteId) :> vote),
          activeVotes |->
            IF voteId \in DOMAIN votes
              THEN [votes EXCEPT ![voteId] =
                      [@ EXCEPT !.yesVotes = IF vote = "yes" THEN 1 ELSE @,
                                !.noVotes = IF vote = "no" THEN 1 ELSE @]]
              ELSE votes]

\* castVote: refuses a key the ledger holds; otherwise records the ballot and, if
\* the proposal exists, adds one to the counter the choice names.  ok is what it
\* returns, the other two fields are the maps it leaves behind.
castVote(ballots, votes, userId, voteId, vote) ==
  IF BallotKey(userId, voteId) \in DOMAIN ballots
    THEN [ok |-> FALSE, activeVoteUsers |-> ballots, activeVotes |-> votes]
    ELSE [ok |-> TRUE,
          activeVoteUsers |-> ballots @@ (BallotKey(userId, voteId) :> vote),
          activeVotes |->
            IF voteId \in DOMAIN votes
              THEN [votes EXCEPT ![voteId] =
                      [@ EXCEPT !.yesVotes = IF vote = "yes" THEN @ + 1 ELSE @,
                                !.noVotes = IF vote = "no" THEN @ + 1 ELSE @]]
              ELSE votes]

getVoteResults(votes, voteId) ==
  IF voteId \notin DOMAIN votes
    THEN [yes |-> 0, no |-> 0, total |-> 0]
    ELSE [yes |-> votes[voteId].yesVotes, no |-> votes[voteId].noVotes,
          total |-> votes[voteId].yesVotes + votes[voteId].noVotes]

\* ---------------------------------------------------------------- routers

\* register keeping an identity's first handle instead of replacing it
register_KeepFirst(clients, userId, c) ==
  IF userId \in DOMAIN clients
    THEN clients
    ELSE clients @@ (userId :> c)

\* connectedClients.set(user.id, ws): one entry per identity, the last handle wins
register(clients, userId, c) ==
  IF userId \in DOMAIN clients
    THEN [clients EXCEPT ![userId] = c]
    ELSE clients @@ (userId :> c)

\* connectedClients.delete(ws.userId)
unregister(clients, userId) ==
  [k \in DOMAIN clients \ {userId} |-> clients[k]]

\* broadcastToAccessCode: the registry keys whose client.send is called
broadcastToAccessCode(clients, cn, senderAccessCode, excludeUserId) ==
  {userId \in DOMAIN clients :
     /\ cn[clients[userId]].readyState = "OPEN"
     /\ userId # excludeUserId
     /\ cn[clients[userId]].user # NoUser
     /\ ShouldReceive(cn[clients[userId]].user, senderAccessCode)}

\* broadcast going through the partition filter, as an event of a full account
broadcast_Partitioned(clients, cn, excludeUserId) ==
  broadcastToAccessCode(clients, cn, NULL, excludeUserId)

\* broadcast giving up as soon as the registry holds a handle that is not open
broadcast_FailFast(clients, cn, excludeUserId) ==
  IF \E userId \in DOMAIN clients : cn[clients[userId]].readyState # "OPEN"
    THEN {}
    ELSE {userId \in DOMAIN clients : userId # excludeUserId}

\* broadcast: the registry keys whose client.send is called
broadcast(clients, cn, excludeUserId) ==
  {userId \in DOMAIN clients :
     /\ cn[clients[userId]].readyState = "OPEN"
     /\ userId # excludeUserId}

\* the connections a fan-out to a partition writes to
fanOutConns(clients, cn, senderAccessCode) ==
  {clients[k] : k \in broadcastToAccessCode(clients, cn, senderAccessCode, 0)}

\* the sockets' outbound streams once newMessage id has been written to a set of
\* connections
written(w, conns, id) == [c \in DOMAIN w |-> IF c \in conns THEN id ELSE w[c]]

NoOut == [op |-> "none", conn |-> 0, event |-> "none", about |-> 0,
          src |-> NULL, recv |-> {}, reply |-> {}, status |-> "none", ref |-> 0,
          payload |-> NoUser]

\* how many times connection c was written to by the last fan-out
Deliveries(c) == Cardinality({k \in out.recv : connectedClients[k] = c})

\* ------------------------------------------------------ handlers in flight

\* the handlers suspended at an await
Calls == BagToSet(pending)

\* a handler reaches an await, moves from one await to the next, or ends
suspend(p, k) == p (+) SetToBag({k})
advance(p, k, next) == (p (-) SetToBag({k})) (+) SetToBag({next})
finish(p, k) == p (-) SetToBag({k})

\* one more handler may be suspended
HasRoom == BagCardinality(pending) < MaxCalls

\* the handlers in flight that may still call createUser
Creating(p) ==
  BagCardinality(
    [k \in {j \in BagToSet(p) :
              /\ j.h \in {"register", "codeAccess", "oldLogin"}
              /\ j.pc \notin {"createUser", "updateUserAccessCode", "getUpdatedUser"}}
       |-> p[k]])

\* the identity store has room for one more identity, those on their way counted
UsersHaveRoom == currentUserId + Creating(pending) <= MaxUsers

\* the proposals on their way
Proposing(p) ==
  BagCardinality(
    [k \in {j \in BagToSet(p) : j.h = "propose" /\ j.pc = "getUser"} |-> p[k]])

\* ------------------------------------------------------------------- Init

Init ==
  /\ users = << >>
  /\ currentUserId = 1
  /\ messages = << >>
  /\ currentMessageId = 1
  /\ wire = [c \in ConnIds |-> 0]
  /\ sessions = [s \in SessionIds |-> 0]
  /\ accessCodes = DefaultCodes
  /\ conn = [c \in ConnIds |-> [readyState |-> "NONE", userId |-> 0, user |-> NoUser]]
  /\ connectedClients = << >>
  /\ now = 0
  /\ out = NoOut
  /\ activeVotes = (1 :> sampleVote)
  /\ activeVoteUsers = << >>
  /\ currentVoteId = 2
  /\ pending = EmptyBag

\* ---------------------------------------------------------------- actions

\* wss.on('connection')
Connect(c) ==
  /\ conn[c].readyState = "NONE"
  /\ conn' = [conn EXCEPT ![c].readyState = "OPEN"]
  /\ out' = NoOut
  /\ UNCHANGED <<idVars, msgVars, sessions, accessCodes, connectedClients, now,
                 voteVars, pending>>

\* the clock moves on by a day
Tick ==
  /\ now < MaxClock
  /\ now' = now + 1
  /\ out' = NoOut
  /\ UNCHANGED <<idVars, msgVars, sessions, accessCodes, sockVars, voteVars, pending>>

\* ------------------------------------------------------- POST /api/register
\* The body passes registerSchema.  The request arrives on session s:
\* getUserByUsername is called with the trimmed username.
Register(s, username, email, password) ==
  /\ HasRoom
  /\ UsersHaveRoom
  /\ pending' = suspend(pending,
       [h |-> "register", pc |-> "getUserByUsername", s |-> s,
        username |-> username, email |-> email, password |-> password,
        existingUser |-> getUserByUsername(users, trim(username)),
        existingEmail |-> NoUser, userCount |-> 0, user |-> NoUser])
  /\ out' = NoOut
  /\ UNCHANGED <<idVars, msgVars, sessions, accessCodes, sockVars, now, voteVars>>

\* getUserByUsername has answered: the request ends with 400 when it found an
\* identity, and getUserByEmail is called when it found none
RegisterAfterGetUserByUsername(k) ==
  /\ k \in Calls /\ k.h = "register" /\ k.pc = "getUserByUsername"
  /\ IF k.existingUser # NoUser
       THEN /\ pending' = finish(pending, k)
            /\ out' = [NoOut EXCEPT !.op = "register",
                                    !.status = "Username already exists"]
       ELSE /\ pending' = advance(pending, k,
                            [k EXCEPT !.pc = "getUserByEmail",
                                      !.existingEmail = getUserByEmail(users, k.email)])
            /\ out' = NoOut
  /\ UNCHANGED <<idVars, msgVars, sessions, accessCodes, sockVars, now, voteVars>>

\* getUserByEmail has answered: 400 when it found an identity, else bcrypt.hash
\* is called
RegisterAfterGetUserByEmail(k) ==
  /\ k \in Calls /\ k.h = "register" /\ k.pc = "getUserByEmail"
  /\ IF k.existingEmail # NoUser
       THEN /\ pending' = finish(pending, k)
            /\ out' = [NoOut EXCEPT !.op = "register",
                                    !.status = "Email already exists"]
       ELSE /\ pending' = advance(pending, k, [k EXCEPT !.pc = "bcrypt.hash"])
            /\ out' = NoOut
  /\ UNCHANGED <<idVars, msgVars, sessions, accessCodes, sockVars, now, voteVars>>

\* the hash is there: getUserCount is called and reads users.size
RegisterAfterHash(k) ==
  /\ k \in Calls /\ k.h = "register" /\ k.pc = "bcrypt.hash"
  /\ pending' = advance(pending, k,
                        [k EXCEPT !.pc = "getUserCount",
                                  !.userCount = getUserCount(users)])
  /\ out' = NoOut
  /\ UNCHANGED <<idVars, msgVars, sessions, accessCodes, sockVars, now, voteVars>>

\* getUserCount has answered: the rank is chosen from it and createUser is called
RegisterAfterGetUserCount(k) ==
  /\ k \in Calls /\ k.h = "register" /\ k.pc = "getUserCount"
  /\ currentUserId <= MaxUsers
  /\ LET rank == IF k.userCount = 0 THEN 0 ELSE 10
         us == createUser(users, currentUserId, trim(k.username), k.email,
                          Hash(k.password), "full", NULL, rank)
     IN  /\ users' = us
         /\ pending' = advance(pending, k,
                               [k EXCEPT !.pc = "createUser", !.user = us[currentUserId]])
  /\ currentUserId' = currentUserId + 1
  /\ out' = NoOut
  /\ UNCHANGED <<msgVars, sessions, accessCodes, sockVars, now, voteVars>>

\* createUser has answered: the session takes the identity, whatever it held, and
\* the identity is returned without its passwordHash
RegisterAfterCreateUser(k) ==
  /\ k \in Calls /\ k.h = "register" /\ k.pc = "createUser"
  /\ sessions' = [sessions EXCEPT ![k.s] = k.user.id]
  /\ pending' = finish(pending, k)
  /\ out' = [NoOut EXCEPT !.op = "register", !.about = k.user.id, !.status = "ok",
                          !.payload = safeUser(k.user)]
  /\ UNCHANGED <<idVars, msgVars, accessCodes, sockVars, now, voteVars>>

RegisterStep(k) ==
  \/ RegisterAfterGetUserByUsername(k)
  \/ RegisterAfterGetUserByEmail(k)
  \/ RegisterAfterHash(k)
  \/ RegisterAfterGetUserCount(k)
  \/ RegisterAfterCreateUser(k)

RegisterSteps == \E k \in Calls : RegisterStep(k)

\* ---------------------------------------------------------- POST /api/login
\* The request arrives on session s: getUserByUsername is called
Login(s, username, password) ==
  /\ HasRoom
  /\ pending' = suspend(pending,
       [h |-> "login", pc |-> "getUserByUsername", s |-> s, username |-> username,
        password |-> password, user |-> getUserByUsername(users, trim(username))])
  /\ out' = NoOut
  /\ UNCHANGED <<idVars, msgVars, sessions, accessCodes, sockVars, now, voteVars>>

\* getUserByUsername has answered: 401 unless it found a full account with a
\* passwordHash, else bcrypt.compare is called
LoginAfterGetUserByUsername(k) ==
  /\ k \in Calls /\ k.h = "login" /\ k.pc = "getUserByUsername"
  /\ IF k.user = NoUser \/ k.user.passwordHash = NULL \/ k.user.accountType # "full"
       THEN /\ pending' = finish(pending, k)
            /\ out' = [NoOut EXCEPT !.op = "login", !.status = "Invalid credentials"]
       ELSE /\ pending' = advance(pending, k, [k EXCEPT !.pc = "bcrypt.compare"])
            /\ out' = NoOut
  /\ UNCHANGED <<idVars, msgVars, sessions, accessCodes, sockVars, now, voteVars>>

\* bcrypt.compare has answered: 401 for another password, else the session takes
\* the identity
LoginAfterCompare(k) ==
  /\ k \in Calls /\ k.h = "login" /\ k.pc = "bcrypt.compare"
  /\ pending' = finish(pending, k)
  /\ IF ~compare(k.password, k.user.passwordHash)
       THEN /\ out' = [NoOut EXCEPT !.op = "login", !.status = "Invalid credentials"]
            /\ UNCHANGED sessions
       ELSE /\ sessions' = [sessions EXCEPT ![k.s] = k.user.id]
            /\ out' = [NoOut EXCEPT !.op = "login", !.about = k.user.id,
                                    !.status = "ok", !.payload = safeUser(k.user)]
  /\ UNCHANGED <<idVars, msgVars, accessCodes, sockVars, now, voteVars>>

LoginStep(k) ==
  \/ LoginAfterGetUserByUsername(k)
  \/ LoginAfterCompare(k)

LoginSteps == \E k \in Calls : LoginStep(k)

\* --------------------------------------------------------- POST /api/logout
\* session.destroy drops the session when it is called and answers through its
\* callback, in a later turn
Logout(s) ==
  /\ HasRoom
  /\ sessions' = [sessions EXCEPT ![s] = 0]
  /\ pending' = suspend(pending, [h |-> "logout", pc |-> "session.destroy", s |-> s])
  /\ out' = NoOut
  /\ UNCHANGED <<idVars, msgVars, accessCodes, sockVars, now, voteVars>>

\* the callback of session.destroy answers the request
LogoutAfterDestroy(k) ==
  /\ k \in Calls /\ k.h = "logout" /\ k.pc = "session.destroy"
  /\ pending' = finish(pending, k)
  /\ out' = [NoOut EXCEPT !.op = "logout", !.status = "Logged out successfully"]
  /\ UNCHANGED <<idVars, msgVars, sessions, accessCodes, sockVars, now, voteVars>>

LogoutStep(k) == LogoutAfterDestroy(k)

LogoutSteps == \E k \in Calls : LogoutStep(k)

\* ---------------------------------------------------- POST /api/code-access
\* The body passes codeAccessSchema.  The request arrives on session s:
\* getAccessCodeByCode is called.
CodeAccess(s, code, username, email) ==
  /\ HasRoom
  /\ getUser(users, sessions[s]) # NoUser \/ UsersHaveRoom
  /\ pending' = suspend(pending,
       [h |-> "codeAccess", pc |-> "getAccessCodeByCode", s |-> s, code |-> code,
        username |-> username, email |-> email,
        accessCode |-> getAccessCodeByCode(accessCodes, code),
        existingUser |-> NoUser, user |-> NoUser])
  /\ out' = NoOut
  /\ UNCHANGED <<idVars, msgVars, sessions, accessCodes, sockVars, now, voteVars>>

\* getAccessCodeByCode has answered: 401 for a code the store does not hold; with
\* a session that holds an identity getUser is called, without one
\* getUserByUsername
CodeAccessAfterGetAccessCodeByCode(k) ==
  /\ k \in Calls /\ k.h = "codeAccess" /\ k.pc = "getAccessCodeByCode"
  /\ IF ~k.accessCode
       THEN /\ pending' = finish(pending, k)
            /\ out' = [NoOut EXCEPT !.op = "codeAccess",
                                    !.status = "Invalid or inactive access code"]
     ELSE IF sessions[k.s] # 0
       THEN /\ pending' = advance(pending, k,
                            [k EXCEPT !.pc = "getUser",
                                      !.existingUser = getUser(users, sessions[k.s])])
            /\ out' = NoOut
     ELSE /\ pending' = advance(pending, k,
                          [k EXCEPT !.pc = "getUserByUsername",
                                    !.existingUser =
                                       getUserByUsername(users, trim(k.username))])
          /\ out' = NoOut
  /\ UNCHANGED <<idVars, msgVars, sessions, accessCodes, sockVars, now, voteVars>>

\* getUser has answered: updateUserAccessCode is called for the session's
\* identity; a session whose identity the store does not hold goes on as a new
\* visitor
CodeAccessAfterGetUser(k) ==
  /\ k \in Calls /\ k.h = "codeAccess" /\ k.pc = "getUser"
  /\ IF k.existingUser # NoUser
       THEN /\ users' = updateUserAccessCode(users, k.existingUser.id, k.code)
            /\ pending' = advance(pending, k, [k EXCEPT !.pc = "updateUserAccessCode"])
       ELSE /\ pending' = advance(pending, k,
                            [k EXCEPT !.pc = "getUserByUsername",
                                      !.existingUser =
                                         getUserByUsername(users, trim(k.username))])
            /\ UNCHANGED users
  /\ out' = NoOut
  /\ UNCHANGED <<currentUserId, msgVars, sessions, accessCodes, sockVars, now,
                 voteVars>>

\* updateUserAccessCode has answered: getUser is called again
CodeAccessAfterUpdateUserAccessCode(k) ==
  /\ k \in Calls /\ k.h = "codeAccess" /\ k.pc = "updateUserAccessCode"
  /\ pending' = advance(pending, k,
                        [k EXCEPT !.pc = "getUpdatedUser",
                                  !.user = getUser(users, k.existingUser.id)])
  /\ out' = NoOut
  /\ UNCHANGED <<idVars, msgVars, sessions, accessCodes, sockVars, now, voteVars>>

\* the second getUser has answered: the identity is returned without its
\* passwordHash
CodeAccessAfterGetUpdatedUser(k) ==
  /\ k \in Calls /\ k.h = "codeAccess" /\ k.pc = "getUpdatedUser"
  /\ pending' = finish(pending, k)
  /\ out' = [NoOut EXCEPT !.op = "codeAccess", !.about = k.user.id, !.status = "ok",
                          !.payload = safeUser(k.user)]
  /\ UNCHANGED <<idVars, msgVars, sessions, accessCodes, sockVars, now, voteVars>>

\* getUserByUsername has answered: 400 when it found an identity, else createUser
\* is called for a limited account under the code
CodeAccessAfterGetUserByUsername(k) ==
  /\ k \in Calls /\ k.h = "codeAccess" /\ k.pc = "getUserByUsername"
  /\ IF k.existingUser # NoUser
       THEN /\ pending' = finish(pending, k)
            /\ out' = [NoOut EXCEPT !.op = "codeAccess",
                                    !.status = "Username already exists"]
            /\ UNCHANGED idVars
       ELSE /\ currentUserId <= MaxUsers
            /\ LET us == createUser(users, currentUserId, trim(k.username), k.email,
                                    NULL, "code", k.code, 10)
               IN  /\ users' = us
                   /\ pending' = advance(pending, k,
                                   [k EXCEPT !.pc = "createUser",
                                             !.user = us[currentUserId]])
            /\ currentUserId' = currentUserId + 1
            /\ out' = NoOut
  /\ UNCHANGED <<msgVars, sessions, accessCodes, sockVars, now, voteVars>>

\* createUser has answered: the session takes the identity
CodeAccessAfterCreateUser(k) ==
  /\ k \in Calls /\ k.h = "codeAccess" /\ k.pc = "createUser"
  /\ sessions' = [sessions EXCEPT ![k.s] = k.user.id]
  /\ pending' = finish(pending, k)
  /\ out' = [NoOut EXCEPT !.op = "codeAccess", !.about = k.user.id, !.status = "ok",
                          !.payload = safeUser(k.user)]
  /\ UNCHANGED <<idVars, msgVars, accessCodes, sockVars, now, voteVars>>

\* the segments of a code-access that changes the code of the session's identity
CodeAccessUpdateStep(k) ==
  \/ CodeAccessAfterGetUser(k)
  \/ CodeAccessAfterUpdateUserAccessCode(k)
  \/ CodeAccessAfterGetUpdatedUser(k)

CodeAccessUpdateSteps == \E k \in Calls : CodeAccessUpdateStep(k)

\* the segments of a code-access that makes a limited account
CodeAccessNewStep(k) ==
  \/ CodeAccessAfterGetUserByUsername(k)
  \/ CodeAccessAfterCreateUser(k)

CodeAccessNewSteps == \E k \in Calls : CodeAccessNewStep(k)

CodeAccessStep(k) ==
  \/ CodeAccessAfterGetAccessCodeByCode(k)
  \/ CodeAccessUpdateStep(k)
  \/ CodeAccessNewStep(k)

CodeAccessSteps == \E k \in Calls : CodeAccessStep(k)

\* ------------------------------------------------------ POST /api/old-login
\* Any code but "3.4.12" is answered 401 at once; else getUserByUsername is
\* called with the username as it came
OldLogin(code, username) ==
  /\ IF code # RESERVED
       THEN /\ out' = [NoOut EXCEPT !.op = "oldLogin", !.status = "Invalid access code"]
            /\ UNCHANGED pending
       ELSE /\ HasRoom
            /\ UsersHaveRoom \/ getUserByUsername(users, username) # NoUser
            /\ pending' = suspend(pending,
                 [h |-> "oldLogin", pc |-> "getUserByUsername",
                  username |-> username,
                  user |-> getUserByUsername(users, username)])
            /\ out' = NoOut
  /\ UNCHANGED <<idVars, msgVars, sessions, accessCodes, sockVars, now, voteVars>>

\* getUserByUsername has answered: the stored identity is returned as it is, and
\* createUser is called when there is none
OldLoginAfterGetUserByUsername(k) ==
  /\ k \in Calls /\ k.h = "oldLogin" /\ k.pc = "getUserByUsername"
  /\ IF k.user # NoUser
       THEN /\ pending' = finish(pending, k)
            /\ out' = [NoOut EXCEPT !.op = "oldLogin", !.about = k.user.id,
                                    !.status = "ok", !.payload = k.user]
            /\ UNCHANGED idVars
       ELSE /\ currentUserId <= MaxUsers
            /\ LET us == createUser(users, currentUserId, k.username,
                                    legacyEmail(k.username), NULL, "code", NULL, 10)
               IN  /\ users' = us
                   /\ pending' = advance(pending, k,
                                   [k EXCEPT !.pc = "createUser",
                                             !.user = us[currentUserId]])
            /\ currentUserId' = currentUserId + 1
            /\ out' = NoOut
  /\ UNCHANGED <<msgVars, sessions, accessCodes, sockVars, now, voteVars>>

\* createUser has answered: the new identity is returned as it is
OldLoginAfterCreateUser(k) ==
  /\ k \in Calls /\ k.h = "oldLogin" /\ k.pc = "createUser"
  /\ pending' = finish(pending, k)
  /\ out' = [NoOut EXCEPT !.op = "oldLogin", !.about = k.user.id, !.status = "ok",
                          !.payload = k.user]
  /\ UNCHANGED <<idVars, msgVars, sessions, accessCodes, sockVars, now, voteVars>>

OldLoginStep(k) ==
  \/ OldLoginAfterGetUserByUsername(k)
  \/ OldLoginAfterCreateUser(k)

OldLoginSteps == \E k \in Calls : OldLoginStep(k)

\* --------------------------------------- ws.on('message'), case 'authenticate'
\* The frame arrives: getUser is called
Authenticate(c, userId) ==
  /\ conn[c].readyState = "OPEN"
  /\ HasRoom
  /\ pending' = suspend(pending,
       [h |-> "authenticate", pc |-> "getUser", c |-> c, userId |-> userId,
        user |-> getUser(users, userId), onlineUsers |-> {}])
  /\ out' = NoOut
  /\ UNCHANGED <<idVars, msgVars, sessions, accessCodes, sockVars, now, voteVars>>

\* getUser has answered: for an identity the store holds, the socket takes it, the
\* registry takes the socket and setUserOnlineStatus is called; for any other id
\* the frame is dropped
AuthenticateAfterGetUser(k) ==
  /\ k \in Calls /\ k.h = "authenticate" /\ k.pc = "getUser"
  /\ IF k.user # NoUser
       THEN /\ conn' = [conn EXCEPT ![k.c].userId = k.user.id, ![k.c].user = k.user]
            /\ connectedClients' = register(connectedClients, k.user.id, k.c)
            /\ users' = setUserOnlineStatus(users, k.user.id, TRUE)
            /\ pending' = advance(pending, k, [k EXCEPT !.pc = "setUserOnlineStatus"])
            /\ out' = [NoOut EXCEPT !.op = "authenticate", !.conn = k.c,
                                    !.about = k.user.id]
       ELSE /\ pending' = finish(pending, k)
            /\ out' = [NoOut EXCEPT !.op = "authenticate", !.conn = k.c]
            /\ UNCHANGED <<users, conn, connectedClients>>
  /\ UNCHANGED <<currentUserId, msgVars, sessions, accessCodes, now, voteVars>>

\* setUserOnlineStatus has answered: userOnline goes to the partition of the
\* identity with the object getUser returned, read before setUserOnlineStatus
\* replaced the store's record, and getOnlineUsersByAccessCode is called
AuthenticateAfterSetUserOnlineStatus(k) ==
  /\ k \in Calls /\ k.h = "authenticate" /\ k.pc = "setUserOnlineStatus"
  /\ pending' = advance(pending, k,
       [k EXCEPT !.pc = "getOnlineUsersByAccessCode",
                 !.onlineUsers = getOnlineUsersByAccessCode(users, PartitionOf(k.user))])
  /\ out' = [op |-> "authenticate", conn |-> k.c, event |-> "userOnline",
             about |-> k.user.id, src |-> PartitionOf(k.user),
             recv |-> broadcastToAccessCode(connectedClients, conn,
                                            PartitionOf(k.user), 0),
             reply |-> {}, status |-> "none", ref |-> 0, payload |-> k.user]
  /\ UNCHANGED <<idVars, msgVars, sessions, accessCodes, sockVars, now, voteVars>>

\* getOnlineUsersByAccessCode has answered: the list is sent to the socket, which
\* takes it if it is open
AuthenticateAfterGetOnlineUsers(k) ==
  /\ k \in Calls /\ k.h = "authenticate" /\ k.pc = "getOnlineUsersByAccessCode"
  /\ pending' = finish(pending, k)
  /\ out' = IF conn[k.c].readyState = "OPEN"
              THEN [op |-> "authenticate", conn |-> k.c, event |-> "onlineUsers",
                    about |-> k.user.id, src |-> PartitionOf(k.user), recv |-> {},
                    reply |-> k.onlineUsers, status |-> "none", ref |-> 0,
                    payload |-> NoUser]
              ELSE [NoOut EXCEPT !.op = "authenticate", !.conn = k.c]
  /\ UNCHANGED <<idVars, msgVars, sessions, accessCodes, sockVars, now, voteVars>>

AuthenticateStep(k) ==
  \/ AuthenticateAfterGetUser(k)
  \/ AuthenticateAfterSetUserOnlineStatus(k)
  \/ AuthenticateAfterGetOnlineUsers(k)

AuthenticateSteps == \E k \in Calls : AuthenticateStep(k)

\* -------------------------------------------------------- message submission
\* createMessage looks the author up and runs the sweep when it is called, and
\* assigns the id and stores the message when its await on the sweep resumes; the
\* handler broadcasts when its await on createMessage resumes (the WebSocket case)
\* or, after one more await on getUser, when that resumes (POST /api/messages).
\* createMessage rejects for an author the store does not hold: id 0 stands for
\* the rejection, which reaches the handler's catch when its await resumes.
\* seq is the place of the submission among those under way when it started.

\* the submissions that were started before and have not ended: the place of a
\* new one in the order in which they were started
Arrived == Cardinality({k \in Calls : k.h \in {"message", "post"}})

\* the 'message' case closing a connection that has no identity
WsMessage_DropsConnection(c, content) ==
  /\ conn[c].readyState = "OPEN"
  /\ conn[c].userId = 0
  /\ conn' = [conn EXCEPT ![c].readyState = "CLOSING"]
  /\ out' = [NoOut EXCEPT !.op = "message", !.conn = c]
  /\ UNCHANGED <<idVars, msgVars, sessions, accessCodes, connectedClients, now,
                 voteVars, pending>>

\* ws.on('message'), case 'message': a frame from a connection without an identity
\* is dropped without an answer; else createMessage is called with the frame's
\* content as it came
WsMessage(c, content) ==
  /\ conn[c].readyState = "OPEN"
  /\ IF conn[c].userId # 0 /\ conn[c].user # NoUser
       THEN /\ HasRoom
            /\ StoreHasRoom
            /\ IF conn[c].userId \in DOMAIN users
                 THEN /\ messages' = cleanupOldMessages(messages, now)
                      /\ pending' = suspend(pending,
                           [h |-> "message", pc |-> "cleanupOldMessages", c |-> c,
                            s |-> 0, userId |-> conn[c].userId, content |-> content,
                            user |-> users[conn[c].userId], seq |-> Arrived,
                            id |-> 0, author |-> NoUser])
                 ELSE /\ pending' = suspend(pending,
                           [h |-> "message", pc |-> "createMessage", c |-> c,
                            s |-> 0, userId |-> conn[c].userId, content |-> content,
                            user |-> NoUser, seq |-> Arrived,
                            id |-> 0, author |-> NoUser])
                      /\ UNCHANGED messages
            /\ out' = NoOut
       ELSE /\ out' = [NoOut EXCEPT !.op = "message", !.conn = c]
            /\ UNCHANGED <<messages, pending>>
  /\ UNCHANGED <<idVars, currentMessageId, wire, sessions, accessCodes, sockVars, now,
                 voteVars>>

\* POST /api/messages on session s: 401 without an identity in the session, 400 for
\* a body that is blank; else createMessage is called with the trimmed body
PostMessage(s, content) ==
  /\ IF sessions[s] = 0
       THEN /\ out' = [NoOut EXCEPT !.op = "post", !.status = "Unauthorized"]
            /\ UNCHANGED <<messages, pending>>
     ELSE IF Len(trim(content)) = 0
       THEN /\ out' = [NoOut EXCEPT !.op = "post", !.about = sessions[s],
                                    !.status = "Le contenu du message est requis"]
            /\ UNCHANGED <<messages, pending>>
     ELSE /\ HasRoom
          /\ StoreHasRoom
          /\ IF sessions[s] \in DOMAIN users
               THEN /\ messages' = cleanupOldMessages(messages, now)
                    /\ pending' = suspend(pending,
                         [h |-> "post", pc |-> "cleanupOldMessages", c |-> 0,
                          s |-> s, userId |-> sessions[s], content |-> trim(content),
                          user |-> users[sessions[s]], seq |-> Arrived,
                          id |-> 0, author |-> NoUser])
               ELSE /\ pending' = suspend(pending,
                         [h |-> "post", pc |-> "createMessage", c |-> 0,
                          s |-> s, userId |-> sessions[s], content |-> trim(content),
                          user |-> NoUser, seq |-> Arrived,
                          id |-> 0, author |-> NoUser])
                    /\ UNCHANGED messages
          /\ out' = NoOut
  /\ UNCHANGED <<idVars, currentMessageId, wire, sessions, accessCodes, sockVars, now,
                 voteVars>>

\* the sweep has answered: createMessage assigns the id and stores the message
SubmitAfterCleanup(k) ==
  /\ k \in Calls /\ k.h \in {"message", "post"} /\ k.pc = "cleanupOldMessages"
  /\ messages' = storeMessage(messages, currentMessageId, k.user, k.content, now)
  /\ currentMessageId' = currentMessageId + 1
  /\ pending' = advance(pending, k,
                        [k EXCEPT !.pc = "createMessage", !.id = currentMessageId])
  /\ out' = NoOut
  /\ UNCHANGED <<idVars, wire, sessions, accessCodes, sockVars, now, voteVars>>

\* createMessage has answered the 'message' case: newMessage goes to the partition
\* of ws.user; a rejection is logged by the catch
WsAfterCreateMessage(k) ==
  /\ k \in Calls /\ k.h = "message" /\ k.pc = "createMessage"
  /\ pending' = finish(pending, k)
  /\ IF k.id # 0
       THEN LET src == PartitionOf(conn[k.c].user)
            IN  /\ out' = [op |-> "message", conn |-> k.c, event |-> "newMessage",
                           about |-> k.userId, src |-> src,
                           recv |-> broadcastToAccessCode(connectedClients, conn, src, 0),
                           reply |-> {}, status |-> "none", ref |-> k.id,
                           payload |-> NoUser]
                /\ wire' = written(wire, fanOutConns(connectedClients, conn, src), k.id)
       ELSE /\ out' = [NoOut EXCEPT !.op = "message", !.conn = k.c]
            /\ UNCHANGED wire
  /\ UNCHANGED <<idVars, messages, currentMessageId, sessions, accessCodes, sockVars,
                 now, voteVars>>

\* createMessage has answered POST /api/messages: getUser is called; a rejection
\* is answered with the 500 of the catch
PostAfterCreateMessage(k) ==
  /\ k \in Calls /\ k.h = "post" /\ k.pc = "createMessage"
  /\ IF k.id # 0
       THEN /\ pending' = advance(pending, k,
                                  [k EXCEPT !.pc = "getUser",
                                            !.author = getUser(users, k.userId)])
            /\ out' = NoOut
       ELSE /\ pending' = finish(pending, k)
            /\ out' = [NoOut EXCEPT !.op = "post", !.about = k.userId,
                                    !.status = "Erreur lors de l'envoi du message"]
  /\ UNCHANGED <<idVars, msgVars, sessions, accessCodes, sockVars, now, voteVars>>

\* getUser has answered: newMessage goes to the author's partition as the store
\* holds it now, and the message is returned
PostAfterGetUser(k) ==
  /\ k \in Calls /\ k.h = "post" /\ k.pc = "getUser"
  /\ pending' = finish(pending, k)
  /\ IF k.author # NoUser
       THEN LET src == PartitionOf(k.author)
            IN  /\ out' = [op |-> "post", conn |-> 0, event |-> "newMessage",
                           about |-> k.userId, src |-> src,
                           recv |-> broadcastToAccessCode(connectedClients, conn, src, 0),
                           reply |-> {k.id}, status |-> "ok", ref |-> k.id,
                           payload |-> NoUser]
                /\ wire' = written(wire, fanOutConns(connectedClients, conn, src), k.id)
       ELSE /\ out' = [NoOut EXCEPT !.op = "post", !.about = k.userId,
                                    !.reply = {k.id}, !.status = "ok", !.ref = k.id]
            /\ UNCHANGED wire
  /\ UNCHANGED <<idVars, messages, currentMessageId, sessions, accessCodes, sockVars,
                 now, voteVars>>

WsMessageStep(k) ==
  \/ SubmitAfterCleanup(k)
  \/ WsAfterCreateMessage(k)

WsMessageSteps == \E k \in Calls : WsMessageStep(k)

PostMessageStep(k) ==
  \/ SubmitAfterCleanup(k)
  \/ PostAfterCreateMessage(k)
  \/ PostAfterGetUser(k)

PostMessageSteps == \E k \in Calls : PostMessageStep(k)

\* the segments of both submission paths
SubmitStep(k) ==
  \/ SubmitAfterCleanup(k)
  \/ WsAfterCreateMessage(k)
  \/ PostAfterCreateMessage(k)
  \/ PostAfterGetUser(k)

SubmitSteps == \E k \in Calls : SubmitStep(k)

\* ------------------------------------------------------------ ws.on('close')

\* a close handler that drops every registered identity, whoever closed
Close_EvictsAll(c) ==
  /\ conn[c].readyState = "CLOSING"
  /\ conn' = [conn EXCEPT ![c].readyState = "CLOSED"]
  /\ connectedClients' = << >>
  /\ users' = [u \in DOMAIN users |-> [users[u] EXCEPT !.isOnline = FALSE]]
  /\ out' = [NoOut EXCEPT !.op = "close", !.conn = c]
  /\ UNCHANGED <<currentUserId, msgVars, sessions, accessCodes, now, voteVars, pending>>

\* the closing handshake starts, or the connection drops: readyState leaves OPEN.
\* No frame that comes after is handed to ws.on('message'), the routers pass the
\* socket over, and the handlers that were started go on.  ws.on('close') is not
\* called yet
Closing(c) ==
  /\ conn[c].readyState = "OPEN"
  /\ conn' = [conn EXCEPT ![c].readyState = "CLOSING"]
  /\ out' = NoOut
  /\ UNCHANGED <<idVars, msgVars, sessions, accessCodes, connectedClients, now,
                 voteVars, pending>>

\* ws.on('close'), called once the connection has ended.  A socket that never
\* authenticated has no ws.userId and the handler does nothing; else the registry
\* entry of ws.userId goes and setUserOnlineStatus is called
Close(c) ==
  /\ conn[c].readyState = "CLOSING"
  /\ conn' = [conn EXCEPT ![c].readyState = "CLOSED"]
  /\ IF conn[c].userId # 0
       THEN /\ HasRoom
            /\ connectedClients' = unregister(connectedClients, conn[c].userId)
            /\ users' = setUserOnlineStatus(users, conn[c].userId, FALSE)
            /\ pending' = suspend(pending,
                 [h |-> "close", pc |-> "setUserOnlineStatus", c |-> c,
                  userId |-> conn[c].userId])
            /\ out' = NoOut
       ELSE /\ out' = [NoOut EXCEPT !.op = "close", !.conn = c]
            /\ UNCHANGED <<users, connectedClients, pending>>
  /\ UNCHANGED <<currentUserId, msgVars, sessions, accessCodes, now, voteVars>>

\* setUserOnlineStatus has answered: userOffline goes to the partition of ws.user
\* and carries {...ws.user, isOnline: false}
CloseAfterSetUserOnlineStatus(k) ==
  /\ k \in Calls /\ k.h = "close" /\ k.pc = "setUserOnlineStatus"
  /\ pending' = finish(pending, k)
  /\ out' = IF conn[k.c].user # NoUser
              THEN [op |-> "close", conn |-> k.c, event |-> "userOffline",
                    about |-> conn[k.c].user.id, src |-> PartitionOf(conn[k.c].user),
                    recv |-> broadcastToAccessCode(connectedClients, conn,
                                                   PartitionOf(conn[k.c].user), 0),
                    reply |-> {}, status |-> "none", ref |-> 0,
                    payload |-> [conn[k.c].user EXCEPT !.isOnline = FALSE]]
              ELSE [NoOut EXCEPT !.op = "close", !.conn = k.c]
  /\ UNCHANGED <<idVars, msgVars, sessions, accessCodes, sockVars, now, voteVars>>

CloseStep(k) == CloseAfterSetUserOnlineStatus(k)

CloseSteps == \E k \in Calls : CloseStep(k)

\* ----------------------------------------------------- GET /api/users/online
\* 401 without an identity in the session; else getUser is called
GetOnlineUsers(s) ==
  /\ IF sessions[s] = 0
       THEN /\ out' = [NoOut EXCEPT !.op = "onlineUsers", !.status = "Unauthorized"]
            /\ UNCHANGED pending
       ELSE /\ HasRoom
            /\ pending' = suspend(pending,
                 [h |-> "onlineUsers", pc |-> "getUser", userId |-> sessions[s],
                  currentUser |-> getUser(users, sessions[s]), list |-> {}])
            /\ out' = NoOut
  /\ UNCHANGED <<idVars, msgVars, sessions, accessCodes, sockVars, now, voteVars>>

\* getUser has answered: getOnlineUsersByAccessCode is called for the partition
\* of the identity
GetOnlineUsersAfterGetUser(k) ==
  /\ k \in Calls /\ k.h = "onlineUsers" /\ k.pc = "getUser"
  /\ IF k.currentUser = NoUser
       THEN /\ pending' = finish(pending, k)
            /\ out' = [NoOut EXCEPT !.op = "onlineUsers", !.about = k.userId,
                                    !.status = "User not found"]
       ELSE /\ pending' = advance(pending, k,
                 [k EXCEPT !.pc = "getOnlineUsersByAccessCode",
                           !.list = getOnlineUsersByAccessCode(
                                      users, PartitionOf(k.currentUser))])
            /\ out' = NoOut
  /\ UNCHANGED <<idVars, msgVars, sessions, accessCodes, sockVars, now, voteVars>>

\* getOnlineUsersByAccessCode has answered: the peer list is returned
GetOnlineUsersAfterList(k) ==
  /\ k \in Calls /\ k.h = "onlineUsers" /\ k.pc = "getOnlineUsersByAccessCode"
  /\ pending' = finish(pending, k)
  /\ out' = [op |-> "onlineUsers", conn |-> 0, event |-> "none", about |-> k.userId,
             src |-> PartitionOf(k.currentUser), recv |-> {}, reply |-> k.list,
             status |-> "ok", ref |-> 0, payload |-> NoUser]
  /\ UNCHANGED <<idVars, msgVars, sessions, accessCodes, sockVars, now, voteVars>>

GetOnlineUsersStep(k) ==
  \/ GetOnlineUsersAfterGetUser(k)
  \/ GetOnlineUsersAfterList(k)

GetOnlineUsersSteps == \E k \in Calls : GetOnlineUsersStep(k)

\* --------------------------------------------------------- GET /api/messages
\* 401 without an identity in the session; else getUser is called
GetMessages(s) ==
  /\ IF sessions[s] = 0
       THEN /\ out' = [NoOut EXCEPT !.op = "history", !.status = "Unauthorized"]
            /\ UNCHANGED pending
       ELSE /\ HasRoom
            /\ pending' = suspend(pending,
                 [h |-> "history", pc |-> "getUser", userId |-> sessions[s],
                  currentUser |-> getUser(users, sessions[s]), list |-> {}])
            /\ out' = NoOut
  /\ UNCHANGED <<idVars, msgVars, sessions, accessCodes, sockVars, now, voteVars>>

\* getUser has answered: getRecentMessagesByAccessCode is called for the
\* partition of the identity (the log never holds more than the 50 messages the
\* handler asks for)
GetMessagesAfterGetUser(k) ==
  /\ k \in Calls /\ k.h = "history" /\ k.pc = "getUser"
  /\ IF k.currentUser = NoUser
       THEN /\ pending' = finish(pending, k)
            /\ out' = [NoOut EXCEPT !.op = "history", !.about = k.userId,
                                    !.status = "User not found"]
       ELSE /\ pending' = advance(pending, k,
                 [k EXCEPT !.pc = "getRecentMessagesByAccessCode",
                           !.list = getRecentMessagesByAccessCode(
                                      messages, PartitionOf(k.currentUser))])
            /\ out' = NoOut
  /\ UNCHANGED <<idVars, msgVars, sessions, accessCodes, sockVars, now, voteVars>>

\* getRecentMessagesByAccessCode has answered: the history is returned
GetMessagesAfterList(k) ==
  /\ k \in Calls /\ k.h = "history" /\ k.pc = "getRecentMessagesByAccessCode"
  /\ pending' = finish(pending, k)
  /\ out' = [op |-> "history", conn |-> 0, event |-> "none", about |-> k.userId,
             src |-> PartitionOf(k.currentUser), recv |-> {}, reply |-> k.list,
             status |-> "ok", ref |-> 0, payload |-> NoUser]
  /\ UNCHANGED <<idVars, msgVars, sessions, accessCodes, sockVars, now, voteVars>>

GetMessagesStep(k) ==
  \/ GetMessagesAfterGetUser(k)
  \/ GetMessagesAfterList(k)

GetMessagesSteps == \E k \in Calls : GetMessagesStep(k)

\* ---------------------------------------------------------- POST /api/votes

\* the voting-rights test with every code account that has a code let through
IsEligible_AnyCode(user) == ~(user.accountType = "code" /\ user.accessCode = NULL)

\* the voting-rights test of both vote handlers: the 403 is for
\* user.accountType === "code" && user.accessCode !== "3.4.12"
IsEligible(user) == ~(user.accountType = "code" /\ user.accessCode # RESERVED)

Forbidden == "Vous n'avez pas les droits"

\* a well-formed body naming proposedBy and an endsAt VotePeriod days ahead:
\* getUser is called
CreateVote(proposedBy) ==
  /\ HasRoom
  /\ currentVoteId + Proposing(pending) <= MaxVotes + 1
  /\ pending' = suspend(pending,
       [h |-> "propose", pc |-> "getUser", proposedBy |-> proposedBy,
        endsAt |-> now + VotePeriod, user |-> getUser(users, proposedBy), id |-> 0])
  /\ out' = NoOut
  /\ UNCHANGED <<idVars, msgVars, sessions, accessCodes, sockVars, now, voteVars>>

\* getUser has answered: the 404 and 403 exits, else createActiveVote is called
CreateVoteAfterGetUser(k) ==
  /\ k \in Calls /\ k.h = "propose" /\ k.pc = "getUser"
  /\ IF k.user = NoUser
       THEN /\ pending' = finish(pending, k)
            /\ out' = [NoOut EXCEPT !.op = "propose", !.about = k.proposedBy,
                                    !.status = "User not found"]
            /\ UNCHANGED <<activeVotes, currentVoteId>>
     ELSE IF ~IsEligible(k.user)
       THEN /\ pending' = finish(pending, k)
            /\ out' = [NoOut EXCEPT !.op = "propose", !.about = k.proposedBy,
                                    !.status = Forbidden]
            /\ UNCHANGED <<activeVotes, currentVoteId>>
     ELSE /\ currentVoteId <= MaxVotes + 1
          /\ activeVotes' = createActiveVote(activeVotes, currentVoteId,
                                            k.proposedBy, k.endsAt)
          /\ currentVoteId' = currentVoteId + 1
          /\ pending' = advance(pending, k,
                                [k EXCEPT !.pc = "createActiveVote",
                                          !.id = currentVoteId])
          /\ out' = NoOut
  /\ UNCHANGED <<idVars, msgVars, sessions, accessCodes, sockVars, now,
                 activeVoteUsers>>

\* createActiveVote has answered: newVote goes to every client
CreateVoteAfterCreateActiveVote(k) ==
  /\ k \in Calls /\ k.h = "propose" /\ k.pc = "createActiveVote"
  /\ pending' = finish(pending, k)
  /\ out' = [op |-> "propose", conn |-> 0, event |-> "newVote",
             about |-> k.proposedBy, src |-> NULL,
             recv |-> broadcast(connectedClients, conn, 0),
             reply |-> {}, status |-> "ok", ref |-> k.id, payload |-> NoUser]
  /\ UNCHANGED <<idVars, msgVars, sessions, accessCodes, sockVars, now, voteVars>>

CreateVoteStep(k) ==
  \/ CreateVoteAfterGetUser(k)
  \/ CreateVoteAfterCreateActiveVote(k)

CreateVoteSteps == \E k \in Calls : CreateVoteStep(k)

\* ----------------------------------------------------- POST /api/votes/cast
\* the request arrives: getUser is called
CastVote(userId, voteId, vote) ==
  /\ HasRoom
  /\ pending' = suspend(pending,
       [h |-> "cast", pc |-> "getUser", userId |-> userId, voteId |-> voteId,
        vote |-> vote, user |-> getUser(users, userId), hasVoted |-> FALSE,
        success |-> FALSE, results |-> getVoteResults(<< >>, voteId)])
  /\ out' = NoOut
  /\ UNCHANGED <<idVars, msgVars, sessions, accessCodes, sockVars, now, voteVars>>

\* getUser has answered: the 404 and 403 exits, else hasUserVoted is called
CastAfterGetUser(k) ==
  /\ k \in Calls /\ k.h = "cast" /\ k.pc = "getUser"
  /\ IF k.user = NoUser
       THEN /\ pending' = finish(pending, k)
            /\ out' = [NoOut EXCEPT !.op = "cast", !.about = k.userId,
                                    !.ref = k.voteId, !.status = "User not found"]
     ELSE IF ~IsEligible(k.user)
       THEN /\ pending' = finish(pending, k)
            /\ out' = [NoOut EXCEPT !.op = "cast", !.about = k.userId,
                                    !.ref = k.voteId, !.status = Forbidden]
     ELSE /\ pending' = advance(pending, k,
               [k EXCEPT !.pc = "hasUserVoted",
                         !.hasVoted = hasUserVoted(activeVoteUsers, k.userId, k.voteId)])
          /\ out' = NoOut
  /\ UNCHANGED <<idVars, msgVars, sessions, accessCodes, sockVars, now, voteVars>>

\* hasUserVoted has answered: the 400 exit, else castVote is called
CastAfterHasUserVoted(k) ==
  /\ k \in Calls /\ k.h = "cast" /\ k.pc = "hasUserVoted"
  /\ LET success == castVote(activeVoteUsers, activeVotes, k.userId, k.voteId, k.vote)
     IN  IF k.hasVoted
           THEN /\ pending' = finish(pending, k)
                /\ out' = [NoOut EXCEPT !.op = "cast", !.about = k.userId,
                                        !.ref = k.voteId,
                                        !.status = "User has already voted"]
                /\ UNCHANGED <<activeVotes, activeVoteUsers>>
           ELSE /\ pending' = advance(pending, k,
                                      [k EXCEPT !.pc = "castVote",
                                                !.success = success.ok])
                /\ activeVoteUsers' = success.activeVoteUsers
                /\ activeVotes' = success.activeVotes
                /\ out' = NoOut
  /\ UNCHANGED <<idVars, msgVars, sessions, accessCodes, sockVars, now, currentVoteId>>

\* castVote has answered: the 400 exit, else getVoteResults is called
CastAfterCastVote(k) ==
  /\ k \in Calls /\ k.h = "cast" /\ k.pc = "castVote"
  /\ IF ~k.success
       THEN /\ pending' = finish(pending, k)
            /\ out' = [NoOut EXCEPT !.op = "cast", !.about = k.userId,
                                    !.ref = k.voteId, !.status = "Failed to cast vote"]
       ELSE /\ pending' = advance(pending, k,
                 [k EXCEPT !.pc = "getVoteResults",
                           !.results = getVoteResults(activeVotes, k.voteId)])
            /\ out' = NoOut
  /\ UNCHANGED <<idVars, msgVars, sessions, accessCodes, sockVars, now, voteVars>>

\* getVoteResults has answered: voteUpdate goes to every client with the results
CastAfterGetVoteResults(k) ==
  /\ k \in Calls /\ k.h = "cast" /\ k.pc = "getVoteResults"
  /\ pending' = finish(pending, k)
  /\ out' = [op |-> "cast", conn |-> 0, event |-> "voteUpdate", about |-> k.userId,
             src |-> NULL, recv |-> broadcast(connectedClients, conn, 0),
             reply |-> {k.results}, status |-> "ok", ref |-> k.voteId,
             payload |-> NoUser]
  /\ UNCHANGED <<idVars, msgVars, sessions, accessCodes, sockVars, now, voteVars>>

CastVoteStep(k) ==
  \/ CastAfterGetUser(k)
  \/ CastAfterHasUserVoted(k)
  \/ CastAfterCastVote(k)
  \/ CastAfterGetVoteResults(k)

CastVoteSteps == \E k \in Calls : CastVoteStep(k)

\* ------------------------------------------------------ POST /api/users/rank
\* the request names the admin, the identity and the rank: getUser is called for
\* the admin
UpdateRank(adminUserId, userId, newRank) ==
  /\ HasRoom
  /\ pending' = suspend(pending,
       [h |-> "rank", pc |-> "getUser", userId |-> userId, newRank |-> newRank,
        adminUser |-> getUser(users, adminUserId), updatedUser |-> NoUser])
  /\ out' = NoOut
  /\ UNCHANGED <<idVars, msgVars, sessions, accessCodes, sockVars, now, voteVars>>

\* getUser has answered: 403 unless it found an identity of rank 0, else
\* updateUserRank is called
UpdateRankAfterGetUser(k) ==
  /\ k \in Calls /\ k.h = "rank" /\ k.pc = "getUser"
  /\ IF k.adminUser = NoUser \/ k.adminUser.rank # 0
       THEN /\ pending' = finish(pending, k)
            /\ out' = [NoOut EXCEPT !.op = "rank",
                                    !.status = "Only rank 0 users can modify ranks"]
            /\ UNCHANGED users
       ELSE /\ users' = updateUserRank(users, k.userId, k.newRank)
            /\ pending' = advance(pending, k,
                 [k EXCEPT !.pc = "updateUserRank",
                           !.updatedUser =
                              getUser(updateUserRank(users, k.userId, k.newRank),
                                      k.userId)])
            /\ out' = NoOut
  /\ UNCHANGED <<currentUserId, msgVars, sessions, accessCodes, sockVars, now,
                 voteVars>>

\* updateUserRank has answered: 404 for an identity the store does not hold, else
\* rankUpdate goes to every client with the identity as the store holds it
UpdateRankAfterUpdateUserRank(k) ==
  /\ k \in Calls /\ k.h = "rank" /\ k.pc = "updateUserRank"
  /\ pending' = finish(pending, k)
  /\ out' = IF k.updatedUser = NoUser
              THEN [NoOut EXCEPT !.op = "rank", !.about = k.userId,
                                 !.status = "User not found"]
              ELSE [op |-> "rank", conn |-> 0, event |-> "rankUpdate",
                    about |-> k.userId, src |-> NULL,
                    recv |-> broadcast(connectedClients, conn, 0),
                    reply |-> {}, status |-> "ok", ref |-> 0,
                    payload |-> k.updatedUser]
  /\ UNCHANGED <<idVars, msgVars, sessions, accessCodes, sockVars, now, voteVars>>

UpdateRankStep(k) ==
  \/ UpdateRankAfterGetUser(k)
  \/ UpdateRankAfterUpdateUserRank(k)

UpdateRankSteps == \E k \in Calls : UpdateRankStep(k)

\* -------------------------------------------------- POST /api/access-codes
\* The public endpoint: createAccessCode is called with the trimmed code, adds it
\* if the store does not hold it and rejects if it does
CreateAccessCode(code) ==
  /\ HasRoom
  /\ accessCodes' = accessCodes \cup {trimCode(code)}
  /\ pending' = suspend(pending,
       [h |-> "accessCodes", pc |-> "createAccessCode", code |-> trimCode(code),
        created |-> trimCode(code) \notin accessCodes])
  /\ out' = NoOut
  /\ UNCHANGED <<idVars, msgVars, sessions, sockVars, now, voteVars>>

\* createAccessCode has answered: the code is returned, or the 409 of the catch
CreateAccessCodeAfterCreate(k) ==
  /\ k \in Calls /\ k.h = "accessCodes" /\ k.pc = "createAccessCode"
  /\ pending' = finish(pending, k)
  /\ out' = [NoOut EXCEPT !.op = "accessCodes",
                          !.status = IF k.created THEN "ok"
                                     ELSE "Ce code d'acces existe deja"]
  /\ UNCHANGED <<idVars, msgVars, sessions, accessCodes, sockVars, now, voteVars>>

CreateAccessCodeStep(k) == CreateAccessCodeAfterCreate(k)

CreateAccessCodeSteps == \E k \in Calls : CreateAccessCodeStep(k)

\* ---------------------------------------------------- POST /api/create-code
\* The admin endpoint on session s: 401 without an identity in the session, else
\* getUser is called
CreateCode(s, code) ==
  /\ IF sessions[s] = 0
       THEN /\ out' = [NoOut EXCEPT !.op = "createCode", !.status = "Unauthorized"]
            /\ UNCHANGED pending
       ELSE /\ HasRoom
            /\ pending' = suspend(pending,
                 [h |-> "createCode", pc |-> "getUser", code |-> code,
                  user |-> getUser(users, sessions[s]), existingCode |-> FALSE])
            /\ out' = NoOut
  /\ UNCHANGED <<idVars, msgVars, sessions, accessCodes, sockVars, now, voteVars>>

\* getUser has answered: 403 unless it found a full account of rank 0, else
\* getAccessCodeByCode is called
CreateCodeAfterGetUser(k) ==
  /\ k \in Calls /\ k.h = "createCode" /\ k.pc = "getUser"
  /\ IF k.user = NoUser \/ k.user.rank # 0 \/ k.user.accountType # "full"
       THEN /\ pending' = finish(pending, k)
            /\ out' = [NoOut EXCEPT !.op = "createCode",
                                    !.status = "Only full account admins can create codes"]
       ELSE /\ pending' = advance(pending, k,
                 [k EXCEPT !.pc = "getAccessCodeByCode",
                           !.existingCode = getAccessCodeByCode(accessCodes, k.code)])
            /\ out' = NoOut
  /\ UNCHANGED <<idVars, msgVars, sessions, accessCodes, sockVars, now, voteVars>>

\* getAccessCodeByCode has answered: 400 for a code the store holds, else
\* createAccessCode is called, which rejects if the code got there meanwhile
CreateCodeAfterGetAccessCodeByCode(k) ==
  /\ k \in Calls /\ k.h = "createCode" /\ k.pc = "getAccessCodeByCode"
  /\ IF k.existingCode
       THEN /\ pending' = finish(pending, k)
            /\ out' = [NoOut EXCEPT !.op = "createCode",
                                    !.status = "Code already exists"]
            /\ UNCHANGED accessCodes
       ELSE /\ accessCodes' = accessCodes \cup {k.code}
            /\ pending' = advance(pending, k,
                 [k EXCEPT !.pc = "createAccessCode",
                           !.existingCode = k.code \in accessCodes])
            /\ out' = NoOut
  /\ UNCHANGED <<idVars, msgVars, sessions, sockVars, now, voteVars>>

\* createAccessCode has answered: the code is returned, or the 500 of the catch
CreateCodeAfterCreateAccessCode(k) ==
  /\ k \in Calls /\ k.h = "createCode" /\ k.pc = "createAccessCode"
  /\ pending' = finish(pending, k)
  /\ out' = [NoOut EXCEPT !.op = "createCode",
                          !.status = IF k.existingCode THEN "Failed to create code"
                                     ELSE "ok"]
  /\ UNCHANGED <<idVars, msgVars, sessions, accessCodes, sockVars, now, voteVars>>

CreateCodeStep(k) ==
  \/ CreateCodeAfterGetUser(k)
  \/ CreateCodeAfterGetAccessCodeByCode(k)
  \/ CreateCodeAfterCreateAccessCode(k)

CreateCodeSteps == \E k \in Calls : CreateCodeStep(k)

\* ------------------------------------------------------------- the program

Next ==
  \/ \E c \in ConnIds : Connect(c)
  \/ Tick
  \/ \E s \in SessionIds, username \in NameInputs, email \in EmailInputs,
        password \in Passwords : Register(s, username, email, password)
  \/ RegisterSteps
  \/ \E s \in SessionIds, username \in NameInputs, password \in Passwords :
       Login(s, username, password)
  \/ LoginSteps
  \/ \E s \in SessionIds : Logout(s)
  \/ LogoutSteps
  \/ \E s \in SessionIds, code \in CodeInputs \cup {UnknownCode},
        username \in NameInputs, email \in EmailInputs :
       CodeAccess(s, code, username, email)
  \/ CodeAccessSteps
  \/ \E code \in {RESERVED, "444"}, username \in NameInputs : OldLogin(code, username)
  \/ OldLoginSteps
  \/ \E c \in ConnIds, userId \in UserIds : Authenticate(c, userId)
  \/ AuthenticateSteps
  \/ \E c \in ConnIds, content \in IngressBodies : WsMessage(c, content)
  \/ \E s \in SessionIds, content \in IngressBodies : PostMessage(s, content)
  \/ SubmitSteps
  \/ \E c \in ConnIds : Closing(c)
  \/ \E c \in ConnIds : Close(c)
  \/ CloseSteps
  \/ \E s \in SessionIds : GetOnlineUsers(s)
  \/ GetOnlineUsersSteps
  \/ \E s \in SessionIds : GetMessages(s)
  \/ GetMessagesSteps
  \/ \E proposedBy \in UserIds : CreateVote(proposedBy)
  \/ CreateVoteSteps
  \/ \E userId \in UserIds, voteId \in VoteIds, vote \in Choices :
       CastVote(userId, voteId, vote)
  \/ CastVoteSteps
  \/ \E adminUserId \in UserIds, userId \in UserIds, newRank \in RankInputs :
       UpdateRank(adminUserId, userId, newRank)
  \/ UpdateRankSteps
  \/ \E code \in {UnknownCode, PaddedCode, "444"} : CreateAccessCode(code)
  \/ CreateAccessCodeSteps
  \/ \E s \in SessionIds, code \in {UnknownCode, "444"} : CreateCode(s, code)
  \/ CreateCodeSteps

Spec == Init /\ [][Next]_vars

\* ------------------------------------------------ how Node runs the handlers
\* MemStorage methods are async functions without I/O: an await on one of them
\* resumes in the microtask queue, before the event loop takes its next event.
\* Only bcrypt and the session store answer in a later turn.  So a request, a
\* connection, a close or a timer starts only when every suspended handler waits
\* for one of those; the frames that came in one chunk on one socket are the
\* exception: their handlers all start before any of them resumes, and a close
\* frame at the end of the chunk takes the socket out of OPEN before they do.
\* ws.on('close') is called in a later turn, once the connection has ended.  The
\* specifications below run the handlers this way; SpecCast alone lets the
\* requests interleave at every await.

Timers == {"bcrypt.hash", "bcrypt.compare", "session.destroy"}

\* every suspended handler waits for a later turn
Idle == \A k \in Calls : k.pc \in Timers

\* handler k has not resumed since its frame came in
FirstAwait(k) ==
  \/ k.h = "authenticate" /\ k.pc = "getUser"
  \/ k.h = "message" /\ k.pc = "cleanupOldMessages"
  \/ k.h = "message" /\ k.pc = "createMessage" /\ k.user = NoUser

\* a frame handled whenever it comes, whatever the handlers under way wait for
SameChunk_AnyTime(c) == TRUE

\* one more frame of the chunk that is being read from socket c
SameChunk(c) ==
  \A k \in Calls :
    \/ k.pc \in Timers
    \/ k.h \in {"authenticate", "message"} /\ k.c = c /\ FirstAwait(k)

\* handler k resumes in a turn of its own
Alone(k) == \A j \in Calls : j = k \/ j.pc \in Timers

RegisterTurns == \E k \in Calls : Alone(k) /\ RegisterStep(k)
LoginTurns == \E k \in Calls : Alone(k) /\ LoginStep(k)
LogoutTurns == \E k \in Calls : Alone(k) /\ LogoutStep(k)

\* ------------------------------------------------------ what requests carry
\* the usernames of the identities made so far, and the next one
KnownNames ==
  1..(IF currentUserId < MaxUsers THEN currentUserId ELSE MaxUsers)

\* the sessions of browsers that hold no identity and have no request under way
FreshSessions ==
  {s \in SessionIds :
     /\ sessions[s] = 0
     /\ \A k \in Calls : k.h \in {"register", "login", "codeAccess"} => k.s # s}

\* a browser that comes for the first time
NewSession == {s \in FreshSessions : \A t \in FreshSessions : s <= t}

\* POST /api/register of a newcomer under username n, with the e-mail address and
\* the password that go with it
Registration(n) ==
  \E s \in NewSession : Register(s, NameOf(n), EmailOf(n), "secret")

\* POST /api/code-access of a newcomer under username n
Admission(code, n) ==
  \E s \in NewSession : CodeAccess(s, code, NameOf(n), EmailOf(n))

\* POST /api/code-access from a session that holds an identity
ChannelChange(s, code) ==
  /\ sessions[s] # 0
  /\ CodeAccess(s, code, NameOf(sessions[s]), EmailOf(sessions[s]))

\* ------------------------------------------------- the registry on its own
\* Full accounts only: the registry is written by authenticate and close alone and
\* never reads an account type or an access code.

NextRegistry ==
  \/ Idle /\ \E c \in ConnIds : Connect(c)
  \/ Idle /\ \E n \in KnownNames : Registration(n)
  \/ RegisterTurns
  \/ \E c \in ConnIds, userId \in UserIds : SameChunk(c) /\ Authenticate(c, userId)
  \/ AuthenticateSteps
  \/ \E c \in ConnIds, content \in Bodies : SameChunk(c) /\ WsMessage(c, content)
  \/ WsMessageSteps
  \/ \E c \in ConnIds : SameChunk(c) /\ Closing(c)
  \/ Idle /\ \E c \in ConnIds : Close(c)
  \/ CloseSteps

SpecRegistry == Init /\ [][NextRegistry]_vars

\* ------------------------------------------- fan-outs over a stale registry
\* Full accounts again, without messages: connections come and go, so the registry
\* can hold closed handles, and presence events, proposals and rank updates are
\* fanned out over it.

NextDeadHandles ==
  \/ Idle /\ \E c \in ConnIds : Connect(c)
  \/ Idle /\ \E n \in KnownNames : Registration(n)
  \/ RegisterTurns
  \/ \E c \in ConnIds, userId \in UserIds : SameChunk(c) /\ Authenticate(c, userId)
  \/ AuthenticateSteps
  \/ \E c \in ConnIds : SameChunk(c) /\ Closing(c)
  \/ Idle /\ \E c \in ConnIds : Close(c)
  \/ CloseSteps
  \/ Idle /\ \E userId \in UserIds : CreateVote(userId)
  \/ CreateVoteSteps
  \/ Idle /\ \E userId \in UserIds : UpdateRank(1, userId, 5)
  \/ UpdateRankSteps

SpecDeadHandles == Init /\ [][NextDeadHandles]_vars

\* ----------------------------------------------- the classifier on its own
\* The three filters are pure functions of identity records.  InitClassifier draws
\* the store from every shape an identity can have (each made by register,
\* code-access or old-login, and changed by code-access), each identity freshly
\* authenticated on a connection of its own; the steps are the handlers that apply
\* a filter, and the sessions change hands through login and logout.  The
\* connections stay open.

IdentityShapes(id) ==
  {shape \in [id : {id}, username : {NameOf(id)},
              email : {EmailOf(id), legacyEmail(NameOf(id))},
              passwordHash : {Hash("secret"), NULL},
              accountType : {"full", "code"}, accessCode : CodeInputs \cup {NULL},
              rank : {IF id = 1 THEN 0 ELSE 10}, isOnline : {TRUE}] :
     /\ shape.passwordHash # NULL <=> shape.accountType = "full"
     /\ shape.email = legacyEmail(NameOf(id))
          <=> (shape.accountType = "code" /\ shape.accessCode = NULL)}

\* every identity on a connection of its own, nothing stored, nothing under way
Settled ==
  /\ currentUserId = MaxUsers + 1
  /\ wire = [c \in ConnIds |-> 0]
  /\ accessCodes = DefaultCodes
  /\ conn = [c \in ConnIds |->
               IF c \in UserIds
                 THEN [readyState |-> "OPEN", userId |-> c, user |-> users[c]]
                 ELSE [readyState |-> "NONE", userId |-> 0, user |-> NoUser]]
  /\ connectedClients = [u \in UserIds \cap ConnIds |-> u]
  /\ out = NoOut
  /\ pending = EmptyBag

InitClassifier ==
  /\ users \in {f \in [UserIds -> UNION {IdentityShapes(i) : i \in UserIds}] :
                  \A i \in UserIds : f[i].id = i}
  /\ Settled
  /\ messages = << >>
  /\ currentMessageId = 1
  /\ sessions = [s \in SessionIds |->
                   IF s \in UserIds /\ ~(users[s].accountType = "code"
                                         /\ users[s].accessCode = NULL)
                     THEN s ELSE 0]
  /\ now = 0
  /\ activeVotes = (1 :> sampleVote)
  /\ activeVoteUsers = << >>
  /\ currentVoteId = 2

NextClassifier ==
  \/ \E c \in ConnIds, content \in Bodies : SameChunk(c) /\ WsMessage(c, content)
  \/ Idle /\ \E s \in SessionIds, content \in Bodies : PostMessage(s, content)
  \/ SubmitSteps
  \/ Idle /\ \E s \in SessionIds : GetOnlineUsers(s)
  \/ GetOnlineUsersSteps
  \/ Idle /\ \E s \in SessionIds : GetMessages(s)
  \/ GetMessagesSteps
  \/ Idle /\ \E s \in SessionIds, n \in UserIds, password \in Passwords :
               Login(s, NameOf(n), password)
  \/ LoginTurns
  \/ Idle /\ \E s \in SessionIds : Logout(s)
  \/ LogoutTurns

SpecClassifier == InitClassifier /\ [][NextClassifier]_vars

\* --------------------------------------------------- the two routers at work
\* A full account and limited accounts of every partition, each on a connection
\* of its own, talk, authenticate again as the identity they hold, close,
\* propose and vote; a cast names the newest proposal.

\* the administrator's full account and limited accounts of every kind
InitRouter ==
  /\ InitClassifier
  /\ \A i \in UserIds :
       IF i = 1 THEN users[i].accountType = "full" /\ users[i].accessCode = NULL
                ELSE users[i].accountType = "code"

NextRouter ==
  \/ \E c \in ConnIds : SameChunk(c) /\ Authenticate(c, conn[c].userId)
  \/ AuthenticateSteps
  \/ \E c \in ConnIds, content \in Bodies : SameChunk(c) /\ WsMessage(c, content)
  \/ WsMessageSteps
  \/ \E c \in ConnIds : SameChunk(c) /\ Closing(c)
  \/ Idle /\ \E c \in ConnIds : Close(c)
  \/ CloseSteps
  \/ Idle /\ \E userId \in UserIds : CreateVote(userId)
  \/ CreateVoteSteps
  \/ Idle /\ \E userId \in UserIds : CastVote(userId, currentVoteId - 1, "yes")
  \/ CastVoteSteps

SpecRouter == InitRouter /\ [][NextRouter]_vars

\* ------------------------------------------------------------ the vote tally
\* Full accounts and limited ones, proposals and ballots; nobody is connected.
\* The voting rule tells "3.4.12" from any other code: one other code is enough.

VoterCodes == {RESERVED, "444"}

NextVotes ==
  \/ Idle /\ \E n \in KnownNames : Registration(n)
  \/ RegisterTurns
  \/ Idle /\ \E code \in VoterCodes, n \in KnownNames : Admission(code, n)
  \/ \E k \in Calls : CodeAccessAfterGetAccessCodeByCode(k)
  \/ CodeAccessNewSteps
  \/ Idle /\ \E userId \in UserIds : CreateVote(userId)
  \/ CreateVoteSteps
  \/ Idle /\ \E userId \in UserIds, voteId \in VoteIds, vote \in Choices :
               CastVote(userId, voteId, vote)
  \/ CastVoteSteps

SpecVotes == Init /\ [][NextVotes]_vars

\* ------------------------------------------------------- the voting right
\* Identities of every kind, coming and changing their codes; they propose, and
\* cast a yes on the sample proposal.

NextEligibility ==
  \/ Idle /\ \E n \in KnownNames : Registration(n)
  \/ RegisterTurns
  \/ Idle /\ \E code \in VoterCodes, n \in KnownNames : Admission(code, n)
  \/ Idle /\ \E s \in SessionIds, code \in VoterCodes : ChannelChange(s, code)
  \/ CodeAccessSteps
  \/ Idle /\ \E code \in VoterCodes, n \in KnownNames : OldLogin(code, NameOf(n))
  \/ OldLoginSteps
  \/ Idle /\ \E userId \in UserIds : CreateVote(userId)
  \/ CreateVoteSteps
  \/ Idle /\ \E userId \in UserIds : CastVote(userId, sampleVote.id, "yes")
  \/ CastVoteSteps

SpecEligibility == Init /\ [][NextEligibility]_vars

\* ------------------------------------------------------------ voting period
\* Full accounts cast on the seeded proposal while the clock runs past its endsAt.

NextExpiry ==
  \/ Idle /\ \E n \in KnownNames : Registration(n)
  \/ RegisterTurns
  \/ Idle /\ \E userId \in UserIds, vote \in {"yes", "no"} :
               CastVote(userId, sampleVote.id, vote)
  \/ CastVoteSteps
  \/ Idle /\ Tick

SpecExpiry == Init /\ [][NextExpiry]_vars

\* ------------------------------------------------------ changing channels
\* Limited accounts come in under a code, connect, change their code while
\* connected, and send messages.

NextChannels ==
  \/ Idle /\ \E c \in ConnIds : Connect(c)
  \/ Idle /\ \E code \in VoterCodes, n \in KnownNames : Admission(code, n)
  \/ Idle /\ \E s \in SessionIds, code \in VoterCodes : ChannelChange(s, code)
  \/ CodeAccessSteps
  \/ \E c \in ConnIds, userId \in UserIds : SameChunk(c) /\ Authenticate(c, userId)
  \/ AuthenticateSteps
  \/ Idle /\ \E s \in SessionIds, content \in Bodies : PostMessage(s, content)
  \/ PostMessageSteps
  \/ \E c \in ConnIds : SameChunk(c) /\ Closing(c)
  \/ Idle /\ \E c \in ConnIds : Close(c)
  \/ CloseSteps

SpecChannels == Init /\ [][NextChannels]_vars

\* ------------------------------------------------------- legacy identities
\* Full accounts and the identities /api/old-login makes, which have no code and
\* no session: they connect, and the full accounts send messages; the
\* administrator adds a code.

NextLegacy ==
  \/ Idle /\ \E c \in ConnIds : Connect(c)
  \/ Idle /\ \E n \in KnownNames : Registration(n)
  \/ RegisterTurns
  \/ Idle /\ \E code \in VoterCodes, username \in NameInputs : OldLogin(code, username)
  \/ OldLoginSteps
  \/ Idle /\ \E s \in SessionIds : CreateCode(s, UnknownCode)
  \/ CreateCodeSteps
  \/ \E c \in ConnIds, userId \in UserIds : SameChunk(c) /\ Authenticate(c, userId)
  \/ AuthenticateSteps
  \/ Idle /\ \E s \in SessionIds, content \in Bodies : PostMessage(s, content)
  \/ PostMessageSteps
  \/ \E c \in ConnIds : SameChunk(c) /\ Closing(c)
  \/ Idle /\ \E c \in ConnIds : Close(c)
  \/ CloseSteps

SpecLegacy == Init /\ [][NextLegacy]_vars

\* ---------------------------------------------------------------- history
\* InitHistory: the first identity registered (a full account), every other one
\* came through /api/code-access with some code; all hold a session.  One of them
\* sent a message the day before, a limited account possibly under another code
\* than the one it holds now.  Limited accounts then change channel between
\* messages and reads of the history; the public endpoint adds a code to the
\* store, before which /api/code-access refuses it.

InitHistory ==
  /\ users \in {f \in [UserIds -> UNION {IdentityShapes(i) : i \in UserIds}] :
                  \A i \in UserIds :
                    /\ f[i].id = i
                    /\ i = 1 => f[i].accountType = "full" /\ f[i].accessCode = NULL
                    /\ i # 1 => f[i].accountType = "code" /\ f[i].accessCode # NULL}
  /\ currentUserId = MaxUsers + 1
  /\ now = 1
  /\ \E author \in UserIds, code \in CodeInputs :
       messages = storeMessage(<< >>, 1,
                               IF users[author].accountType = "full"
                                 THEN users[author]
                                 ELSE updateUserAccessCode(users, author, code)[author],
                               <<"h", "i">>, 0)
  /\ currentMessageId = 2
  /\ wire = [c \in ConnIds |-> 0]
  /\ sessions = [s \in SessionIds |-> IF s \in UserIds THEN s ELSE 0]
  /\ accessCodes = DefaultCodes
  /\ conn = [c \in ConnIds |-> [readyState |-> "NONE", userId |-> 0, user |-> NoUser]]
  /\ connectedClients = << >>
  /\ out = NoOut
  /\ activeVotes = (1 :> sampleVote)
  /\ activeVoteUsers = << >>
  /\ currentVoteId = 2
  /\ pending = EmptyBag

NextHistory ==
  \/ Idle /\ \E s \in SessionIds, content \in Bodies : PostMessage(s, content)
  \/ PostMessageSteps
  \/ Idle /\ CreateAccessCode(PaddedCode)
  \/ CreateAccessCodeSteps
  \/ Idle /\ \E s \in SessionIds, code \in CodeInputs \cup {UnknownCode} :
               sessions[s] # 1 /\ ChannelChange(s, code)
  \/ \E k \in Calls : CodeAccessAfterGetAccessCodeByCode(k)
  \/ CodeAccessUpdateSteps
  \/ Idle /\ \E s \in SessionIds : GetMessages(s)
  \/ GetMessagesSteps

SpecHistory == InitHistory /\ [][NextHistory]_vars

\* ------------------------------------------------------- message ingress
\* InitIngress: every identity is a full account, authenticated on a connection of
\* its own; all but the last browser hold a session.  Both ingress paths take
\* every kind of body.

InitIngress ==
  /\ users = [u \in UserIds |->
                [id |-> u, username |-> NameOf(u), email |-> EmailOf(u),
                 passwordHash |-> Hash("secret"),
                 accountType |-> "full", accessCode |-> NULL,
                 rank |-> IF u = 1 THEN 0 ELSE 10, isOnline |-> u \in ConnIds]]
  /\ Settled
  /\ messages = << >>
  /\ currentMessageId = 1
  /\ sessions = [s \in SessionIds |-> IF s \in UserIds /\ s < MaxSessions THEN s ELSE 0]
  /\ now = 0
  /\ activeVotes = (1 :> sampleVote)
  /\ activeVoteUsers = << >>
  /\ currentVoteId = 2

NextIngress ==
  \/ \E c \in ConnIds, content \in IngressBodies : SameChunk(c) /\ WsMessage(c, content)
  \/ Idle /\ \E s \in SessionIds, content \in IngressBodies : PostMessage(s, content)
  \/ SubmitSteps
  \/ \E c \in ConnIds : SameChunk(c) /\ Closing(c)
  \/ Idle /\ \E c \in ConnIds : Close(c)
  \/ CloseSteps

SpecIngress == InitIngress /\ [][NextIngress]_vars

\* ------------------------------------------------------------- retention
\* The ingress with well-formed frames, the history read and the clock: messages
\* age, expire and are swept by the next submission.

NextRetention ==
  \/ \E c \in ConnIds, content \in Bodies : SameChunk(c) /\ WsMessage(c, content)
  \/ Idle /\ \E s \in SessionIds, content \in Bodies \cup {<< >>} :
               PostMessage(s, content)
  \/ SubmitSteps
  \/ Idle /\ \E s \in SessionIds : GetMessages(s)
  \/ GetMessagesSteps
  \/ Idle /\ Tick
  \/ \E c \in ConnIds : SameChunk(c) /\ Closing(c)
  \/ Idle /\ \E c \in ConnIds : Close(c)
  \/ CloseSteps

SpecRetention == InitIngress /\ [][NextRetention]_vars

\* ------------------------------------------------ concurrent cast requests
\* InitCast: every identity is eligible and connected, and one of them has just
\* created a proposal.  Each identity then sends one cast request for it, and the
\* requests interleave at their awaits in every way.

\* the id createActiveVote gives the first proposal made after the sample
FreshVote == sampleVote.id + 1

InitCast ==
  /\ users \in {f \in [UserIds -> UNION {IdentityShapes(i) : i \in UserIds}] :
                  \A i \in UserIds : f[i].id = i /\ IsEligible(f[i])
                                       /\ f[i].accessCode \in {NULL, RESERVED}}
  /\ Settled
  /\ messages = << >>
  /\ currentMessageId = 1
  /\ sessions = [s \in SessionIds |-> IF s \in UserIds THEN s ELSE 0]
  /\ now = 0
  /\ activeVotes = createActiveVote(1 :> sampleVote, FreshVote, 1, VotePeriod)
  /\ activeVoteUsers = << >>
  /\ currentVoteId = FreshVote + 1

\* identity userId has sent no cast request for the proposal yet
NotAsked(userId, voteId) ==
  /\ ~hasUserVoted(activeVoteUsers, userId, voteId)
  /\ \A k \in Calls : ~(k.h = "cast" /\ k.userId = userId /\ k.voteId = voteId)

NextCast ==
  \/ \E userId \in UserIds, vote \in {"yes", "no"} :
       NotAsked(userId, FreshVote) /\ CastVote(userId, FreshVote, vote)
  \/ CastVoteSteps

SpecCast == InitCast /\ [][NextCast]_vars

\* ------------------------------------------------- concurrent registrations
\* The store is empty; registration requests arrive from any browser, under any
\* username and address, next to identities made through /api/code-access.  The
\* requests overlap where Node lets them: while one waits for bcrypt.hash the
\* others start, and each goes from bcrypt.hash to its response in one turn.

NextRegister ==
  \/ Idle /\ \E s \in SessionIds, username \in NameInputs, email \in Emails :
               Register(s, username, email, "secret")
  \/ RegisterTurns
  \/ Idle /\ \E code \in {RESERVED}, n \in UserIds : Admission(code, n)
  \/ \E k \in Calls : CodeAccessAfterGetAccessCodeByCode(k)
  \/ CodeAccessNewSteps

SpecRegister == Init /\ [][NextRegister]_vars

\* --------------------------------------------------- concurrent submissions
\* InitIngress; the connections and the sessions send messages.  Submissions
\* overlap where Node lets them: the frames of one chunk start together, and
\* their handlers resume from each await in the order in which they were
\* started, the microtask queue being first in, first out; a request starts in a
\* turn of its own.

\* the awaits submission k has resumed from
Resumed(k) ==
  IF k.pc = "cleanupOldMessages" \/ (k.pc = "createMessage" /\ k.user = NoUser) THEN 0
  ELSE IF k.pc = "createMessage" THEN 1
  ELSE 2

\* submission k is at the head of the microtask queue
InOrder(k) ==
  \A j \in Calls \ {k} :
    j.h \in {"message", "post"} =>
      \/ Resumed(j) > Resumed(k)
      \/ Resumed(j) = Resumed(k) /\ j.seq > k.seq

SubmitTurns == \E k \in Calls : InOrder(k) /\ SubmitStep(k)

NextSubmit ==
  \/ \E c \in ConnIds, content \in Bodies : SameChunk(c) /\ WsMessage(c, content)
  \/ Idle /\ \E s \in SessionIds, content \in Bodies : PostMessage(s, content)
  \/ SubmitTurns
  \/ \E c \in ConnIds : SameChunk(c) /\ Closing(c)
  \/ Idle /\ \E c \in ConnIds : Close(c)
  \/ CloseSteps
  \/ Idle /\ Tick

SpecSubmit == InitIngress /\ [][NextSubmit]_vars

\* ------------------------------------------------------- repeated ballots
\* From InitCast again: the identities cast on the new proposal, any choice, as
\* often as they like.

NextBallot ==
  \/ Idle /\ \E userId \in UserIds, vote \in Choices : CastVote(userId, FreshVote, vote)
  \/ CastVoteSteps

SpecBallot == InitCast /\ [][NextBallot]_vars

\* ------------------------------------------------------ claim vocabulary

IsElevated(user) == user.accountType = "full"
IsReservedUser(user) == user.accountType = "code" /\ user.accessCode = RESERVED
IsPrivate(user) ==
  user.accountType = "code" /\ user.accessCode # NULL /\ user.accessCode # RESERVED
IsUnpartitioned(user) == user.accountType = "code" /\ user.accessCode = NULL

\* every shape an identity record can take
AllIdentities ==
  [id : {0}, accountType : {"full", "code"}, accessCode : CodeInputs \cup {NULL},
   rank : {10}, isOnline : {TRUE}]

\* the identity records the state holds: the store's and the connections' snapshots
StateIdentities ==
  {users[u] : u \in DOMAIN users}
    \cup {conn[c].user : c \in {d \in ConnIds : conn[d].user # NoUser}}

\* the registry's live handles, and the identity each one speaks for (ws.userId)
LiveKeys == {k \in DOMAIN connectedClients : conn[connectedClients[k]].readyState = "OPEN"}
ConnectedIdentities == {conn[connectedClients[k]].userId : k \in LiveKeys}

\* the connections the last fan-out wrote to, and the identities behind them
ReceivingConns == {connectedClients[k] : k \in out.recv}
Receivers == {conn[c].userId : c \in ReceivingConns}

FanOut == out.event \in {"newMessage", "userOnline", "userOffline"}
GlobalFanOut == out.event \in {"newVote", "voteUpdate", "rankUpdate"}

\* the ballots the ledger holds for a proposal, and for an identity
Ballots(voteId) == {k \in DOMAIN activeVoteUsers : k[2] = voteId}
BallotsOf(userId) == {k \in DOMAIN activeVoteUsers : k[1] = userId}

\* the identities the voting rule names: full accounts and "3.4.12" code accounts
MayVote(userId) ==
  /\ userId \in DOMAIN users
  /\ (IsElevated(users[userId]) \/ IsReservedUser(users[userId]))

\* the identity a suspended vote request was made for
Requester(k) == IF k.h = "cast" THEN k.userId ELSE k.proposedBy

\* registry entries whose handle cannot be written to
DeadKeys == DOMAIN connectedClients \ LiveKeys

\* ------------------------------------------------------------------ claims

\* C1: a newMessage of a private-channel identity (channel K) reaches all connected
\* identities of channel K and nobody else; a newMessage of a full account reaches
\* all connected full accounts and "3.4.12" identities and no private-channel identity.
C1_MessageIsolation ==
  out.event = "newMessage" =>
    LET sender == users[out.about]
    IN  /\ IsPrivate(sender) =>
             Receivers = {u \in ConnectedIdentities :
                            PartitionOf(users[u]) = sender.accessCode}
        /\ IsElevated(sender) =>
             /\ {u \in ConnectedIdentities :
                   IsElevated(users[u]) \/ IsReservedUser(users[u])} \subseteq Receivers
             /\ \A u \in Receivers : ~IsPrivate(users[u])

\* C2: in the router, the peer list and the history filter alike, full accounts and
\* "3.4.12" identities see each other, and identities of two distinct private
\* channel keys never see each other: as predicates on identity records, and in
\* what each filtered path has just returned for the records it was given.
C2_VisibilityClasses ==
  /\ \A a \in StateIdentities, b \in AllIdentities :
       /\ (IsElevated(a) \/ IsReservedUser(a)) /\ (IsElevated(b) \/ IsReservedUser(b)) =>
            /\ ShouldReceive(b, PartitionOf(a)) /\ ShouldReceive(a, PartitionOf(b))
            /\ OnlineUserFilter(b, PartitionOf(a))
            /\ OnlineUserFilter([a EXCEPT !.isOnline = TRUE], PartitionOf(b))
            /\ MessageFilter(b, PartitionOf(a)) /\ MessageFilter(a, PartitionOf(b))
       /\ IsPrivate(a) /\ IsPrivate(b) /\ a.accessCode # b.accessCode =>
            /\ ~ShouldReceive(b, PartitionOf(a)) /\ ~ShouldReceive(a, PartitionOf(b))
            /\ ~OnlineUserFilter(b, PartitionOf(a))
            /\ ~OnlineUserFilter([a EXCEPT !.isOnline = TRUE], PartitionOf(b))
            /\ ~MessageFilter(b, PartitionOf(a)) /\ ~MessageFilter(a, PartitionOf(b))
  /\ FanOut =>
       \A k \in LiveKeys :
         LET client == conn[connectedClients[k]].user
         IN  /\ (out.src \in {NULL, RESERVED}
                   /\ (IsElevated(client) \/ IsReservedUser(client))) => k \in out.recv
             /\ (out.src \notin {NULL, RESERVED} /\ IsPrivate(client)
                   /\ client.accessCode # out.src) => k \notin out.recv
  /\ (out.event = "onlineUsers" \/ (out.op = "onlineUsers" /\ out.status = "ok")) =>
       \A v \in DOMAIN users :
         /\ (out.src \in {NULL, RESERVED} /\ users[v].isOnline
               /\ (IsElevated(users[v]) \/ IsReservedUser(users[v]))) => v \in out.reply
         /\ (out.src \notin {NULL, RESERVED} /\ IsPrivate(users[v])
               /\ users[v].accessCode # out.src) => v \notin out.reply
  /\ (out.op = "history" /\ out.status = "ok") =>
       \A m \in DOMAIN messages :
         /\ (out.src \in {NULL, RESERVED}
               /\ (IsElevated(messages[m].user) \/ IsReservedUser(messages[m].user)))
              => m \in out.reply
         /\ (out.src \notin {NULL, RESERVED} /\ IsPrivate(messages[m].user)
               /\ messages[m].user.accessCode # out.src) => m \notin out.reply

\* C2 witness: a full account's message has just been delivered to a connected
\* "3.4.12" identity.
C2_Witness ==
  /\ out.event = "newMessage"
  /\ IsElevated(users[out.about])
  /\ \E u \in Receivers : u # out.about /\ IsReservedUser(users[u])
                          /\ IsReservedUser(conn[connectedClients[u]].user)

\* C3: visibility is symmetric: an event sourced from a's partition is delivered
\* to b exactly when an event sourced from b's partition is delivered to a.
C3_VisibilitySymmetric ==
  \A a \in StateIdentities, b \in StateIdentities \cup AllIdentities :
    ShouldReceive(b, PartitionOf(a)) = ShouldReceive(a, PartitionOf(b))

\* C3 witness: a private-channel identity's message has just been routed while an
\* identity of another partition was connected, and it did not get it.
C3_Witness ==
  /\ out.event = "newMessage"
  /\ IsPrivate(users[out.about])
  /\ out.about \in Receivers
  /\ \E u \in ConnectedIdentities \ Receivers :
       /\ PartitionOf(users[u]) # PartitionOf(users[out.about])
       /\ conn[connectedClients[u]].user = users[u]
       /\ ~ShouldReceive(users[out.about], PartitionOf(users[u]))

\* C4: every delivery decision uses the sender's and the receiver's accountType and
\* accessCode as the identity store holds them at delivery time.
C4_FreshVisibility ==
  FanOut =>
    Receivers = {u \in ConnectedIdentities :
                   ShouldReceive(users[u], PartitionOf(users[out.about]))}

\* C5: a code account with no access code is visible to no one but itself: nobody
\* else gets its events and it gets nobody else's.
C5_UnpartitionedIsolated ==
  FanOut =>
    \A u \in Receivers \ {out.about} :
      ~IsUnpartitioned(users[out.about]) /\ ~IsUnpartitioned(users[u])

\* C6: the registry holds one handle per identity; an authenticate installs the
\* authenticating connection as the identity's handle, an entry's handle changes in
\* no other way, and a fan-out writes only to current handles.
C6_OneHandlePerIdentity ==
  [][/\ (out'.op = "authenticate" /\ out'.about # 0) =>
          /\ out'.about \in DOMAIN connectedClients'
          /\ connectedClients'[out'.about] = out'.conn
     /\ \A u \in DOMAIN connectedClients' :
          (u \notin DOMAIN connectedClients \/ connectedClients[u] # connectedClients'[u]) =>
            /\ out'.op = "authenticate"
            /\ out'.about = u
            /\ connectedClients'[u] = out'.conn
     /\ \A c \in ConnIds :
          (\A u \in DOMAIN connectedClients' : connectedClients'[u] # c) =>
            Cardinality({k \in out'.recv : connectedClients'[k] = c}) = 0
    ]_vars

\* C6 witness: an identity has just authenticated on a second connection while its
\* first one is still open; the new handle got the event, the superseded one did not.
C6_Witness ==
  /\ out.op = "authenticate"
  /\ out.event = "userOnline"
  /\ connectedClients[out.about] = out.conn
  /\ Deliveries(out.conn) = 1
  /\ \E c \in ConnIds \ {out.conn} :
       /\ conn[c].readyState = "OPEN"
       /\ conn[c].userId = out.about
       /\ Deliveries(c) = 0

\* C7: once an identity's connection has closed the identity is in no visible peer
\* set, and the close emits one userOffline, delivered only to identities visible
\* from its partition.
C7_DisconnectRemovesPeer ==
  /\ \A k \in DOMAIN connectedClients :
       conn[connectedClients[k]].readyState = "CLOSED" =>
         \A p \in CodeInputs \cup {NULL} : k \notin getOnlineUsersByAccessCode(users, p)
  /\ (out.op = "close" /\ conn[out.conn].userId # 0) =>
       /\ out.event = "userOffline"
       /\ out.about = conn[out.conn].userId
       /\ \A u \in Receivers : ShouldReceive(users[u], PartitionOf(users[out.about]))

\* C8: an identity whose isOnline flag is true has an entry in the registry.
C8_OnlineImpliesRegistered ==
  \A u \in DOMAIN users : users[u].isOnline => u \in DOMAIN connectedClients

\* C9: the onlineUsers list returned by authenticate is exactly the online
\* identities visible from the authenticating identity's partition, with the
\* router's partitionOf and visibility.
C9_OnlineUsersReply ==
  out.event = "onlineUsers" =>
    out.reply = {v \in DOMAIN users :
                   /\ users[v].isOnline
                   /\ ShouldReceive(users[v], PartitionOf(users[out.about]))}

\* C10: no connection is written to more than once by one fan-out.
C10_ExactlyOnce ==
  \A c \in ConnIds : Deliveries(c) <= 1

\* C11: a registry entry that cannot be written to does not stop a fan-out: every
\* live entry the event is meant for is still written to, and the sender's own
\* request ends as it would have (the message is stored, the request answered ok).
C11_FailureIsolation ==
  /\ FanOut =>
       \A k \in LiveKeys :
         ShouldReceive(conn[connectedClients[k]].user, out.src) => k \in out.recv
  /\ GlobalFanOut => LiveKeys \subseteq out.recv /\ out.status = "ok"
  /\ out.event = "newMessage" => out.ref \in DOMAIN messages

\* C11 witness: a proposal has just been announced while the registry held a closed
\* handle, and the live handles got the announcement.
C11_Witness ==
  /\ out.event = "newVote"
  /\ DeadKeys # {}
  /\ LiveKeys # {}
  /\ out.recv = LiveKeys

\* C12: once a fan-out has run, the registry holds no entry whose handle cannot be
\* written to: the fan-out has evicted every one it met.
C12_EvictionOnFailure ==
  (FanOut \/ GlobalFanOut) => DeadKeys = {}

\* two partitions see each other: null and "3.4.12" are one channel, every other
\* code is a channel of its own
Visible(p, q) == IF p \in {NULL, RESERVED} THEN q \in {NULL, RESERVED} ELSE p = q

\* C13: newVote and voteUpdate are written to every live registry entry, whatever
\* its partition; newMessage, userOnline and userOffline are written to the live
\* entries whose partition sees the partition the event comes from, and to no
\* other.
C13_GlobalRouting ==
  /\ out.event \in {"newVote", "voteUpdate"} => out.recv = LiveKeys
  /\ FanOut =>
       out.recv = {k \in LiveKeys :
                     /\ conn[connectedClients[k]].user # NoUser
                     /\ Visible(PartitionOf(conn[connectedClients[k]].user), out.src)}
  /\ out.event = "userOnline" => out.src = PartitionOf(out.payload)
  /\ out.event = "userOffline" => out.src = PartitionOf(conn[out.conn].user)
  /\ (out.event = "newMessage" /\ out.op = "message") =>
       out.src = PartitionOf(conn[out.conn].user)
  /\ (out.event = "newMessage" /\ out.op = "post") =>
       out.src = PartitionOf(users[out.about])

\* C13 witness: the ballot of one identity has just been announced to the live
\* handle of a private-channel identity.
C13_Witness ==
  /\ out.event = "voteUpdate"
  /\ \E k \in out.recv \ {out.about} :
       /\ IsPrivate(users[k])
       /\ IsPrivate(conn[connectedClients[k]].user)

\* C14: a newMessage goes out only once the sweep has run and the message has been
\* appended: at that point the log holds no expired message, and holds the
\* announced message under an id the store has assigned, stamped with the current
\* time, written by an identity the store holds.  So a submission whose author
\* was not found or whose message was not appended announces nothing, and neither
\* does one that is turned down (no session, no identity on the socket, no body).
C14_IngressOrder ==
  /\ out.event = "newMessage" =>
       /\ out.op \in {"message", "post"}
       /\ \A m \in DOMAIN messages : ~(messages[m].createdAt < now - RetentionDays)
       /\ out.ref \in DOMAIN messages
       /\ out.ref < currentMessageId
       /\ messages[out.ref].id = out.ref
       /\ messages[out.ref].createdAt = now
       /\ messages[out.ref].userId = out.about
       /\ out.about \in DOMAIN users
  /\ (out.op \in {"message", "post"} /\ out.status \notin {"none", "ok"}) =>
       out.event = "none" /\ out.recv = {}

\* C14 witness: a submission has just swept the expired first message out of the
\* log, appended its own and announced it.
C14_Witness ==
  /\ out.event = "newMessage"
  /\ out.ref > 1
  /\ DOMAIN messages = {out.ref}
  /\ out.recv # {}

\* the body is empty once trimmed
Blank(content) == Len(trim(content)) = 0

\* C15: a submission whose body is empty after trimming is turned down as a
\* validation error: no segment of its handler changes the log or the id counter
\* or announces a newMessage, on the WebSocket path and on the REST path, where it
\* is answered with the validation error before createMessage is called; so no
\* message with such a body is ever stored.
C15_BodyValidation ==
  [][/\ \A content \in IngressBodies, s \in SessionIds :
          (Blank(content) /\ sessions[s] # 0 /\ PostMessage(s, content)) =>
            /\ UNCHANGED <<messages, currentMessageId, pending>>
            /\ out'.event = "none"
            /\ out'.status = "Le contenu du message est requis"
     /\ \A k \in Calls :
          (k.h \in {"message", "post"} /\ Blank(k.content) /\ SubmitStep(k)) =>
            /\ UNCHANGED <<messages, currentMessageId>>
            /\ out'.event = "none"
     /\ \A m \in DOMAIN messages' \ DOMAIN messages : ~Blank(messages'[m].content)
    ]_vars

\* C16: a 'message' frame on a connection without an identity changes nothing, is
\* announced to nobody, and leaves the connection open.
C16_NotAuthenticated ==
  [][\A c \in ConnIds, content \in IngressBodies :
       (conn[c].userId = 0 /\ WsMessage(c, content)) =>
         /\ UNCHANGED <<users, currentUserId, messages, currentMessageId, sessions,
                        conn, connectedClients, voteVars, pending>>
         /\ out'.event = "none"
         /\ out'.recv = {}
         /\ conn'[c].readyState = "OPEN"
    ]_vars

\* C16 witness: a connection without an identity has just sent a 'message' frame;
\* it is still open and the log is empty.
C16_Witness ==
  /\ out.op = "message"
  /\ out.event = "none"
  /\ conn[out.conn].userId = 0
  /\ conn[out.conn].readyState = "OPEN"
  /\ DOMAIN users # {}
  /\ messages = << >>

\* C17: in every state, the initial one included, each proposal's yesVotes plus
\* noVotes is the number of ballots the ledger holds for it; and no step removes
\* a proposal or lowers one of its counters.
C17_TallyInvariant ==
  /\ [](\A v \in DOMAIN activeVotes :
          activeVotes[v].yesVotes + activeVotes[v].noVotes = Cardinality(Ballots(v)))
  /\ [][\A v \in DOMAIN activeVotes :
          /\ v \in DOMAIN activeVotes'
          /\ activeVotes'[v].yesVotes >= activeVotes[v].yesVotes
          /\ activeVotes'[v].noVotes >= activeVotes[v].noVotes]_vars

\* C18: a cast for a pair (identity, proposal) the ledger already holds a ballot
\* for, whatever the choice, changes neither the ledger nor a counter and announces
\* no voteUpdate in any of its segments; it ends when hasUserVoted has answered,
\* and the identity is told it has already voted.
C18_OneBallot ==
  [][\A k \in Calls :
       (/\ k.h = "cast"
        /\ k.pc \in {"getUser", "hasUserVoted"}
        /\ BallotKey(k.userId, k.voteId) \in DOMAIN activeVoteUsers
        /\ CastVoteStep(k)) =>
         /\ UNCHANGED <<activeVotes, activeVoteUsers>>
         /\ out'.event = "none"
         /\ k.pc = "hasUserVoted" =>
              /\ out'.status = "User has already voted"
              /\ \A j \in BagToSet(pending') : j.h # "cast"
    ]_vars

\* C18 witness: an identity that voted yes on the new proposal has just cast
\* again and been told it has already voted; the tally shows its one yes.
C18_Witness ==
  /\ out.op = "cast"
  /\ out.status = "User has already voted"
  /\ out.ref = FreshVote
  /\ FreshVote \in DOMAIN activeVotes
  /\ Ballots(FreshVote) = {BallotKey(out.about, FreshVote)}
  /\ activeVoteUsers[BallotKey(out.about, FreshVote)] = "yes"
  /\ activeVotes[FreshVote].yesVotes = 1
  /\ activeVotes[FreshVote].noVotes = 0

\* C19: once every identity has sent its cast request for the new proposal and
\* all the requests have run to their end, in whatever order their segments
\* interleaved, the proposal's yesVotes plus noVotes is the number of identities,
\* each counter is the number of ballots of its choice, and each identity has
\* exactly one ballot.
C19_NoLostUpdates ==
  (Calls = {} /\ \A u \in UserIds : ~NotAsked(u, FreshVote)) =>
    /\ activeVotes[FreshVote].yesVotes + activeVotes[FreshVote].noVotes = MaxUsers
    /\ activeVotes[FreshVote].yesVotes =
         Cardinality({u \in UserIds : activeVoteUsers[BallotKey(u, FreshVote)] = "yes"})
    /\ activeVotes[FreshVote].noVotes =
         Cardinality({u \in UserIds : activeVoteUsers[BallotKey(u, FreshVote)] = "no"})
    /\ \A u \in UserIds : BallotsOf(u) = {BallotKey(u, FreshVote)}

\* C19 witness: all requests have ended; the last one to answer announced a count
\* it had read before another request cast its ballot, so the requests overlapped,
\* and the tally is complete all the same.
C19_Witness ==
  /\ Calls = {}
  /\ \A u \in UserIds : ~NotAsked(u, FreshVote)
  /\ out.event = "voteUpdate"
  /\ \E r \in out.reply : r.total < MaxUsers
  /\ activeVotes[FreshVote].yesVotes + activeVotes[FreshVote].noVotes = MaxUsers

\* C20: a step records a ballot only for an identity that may vote at that moment
\* and creates a proposal only for one that may propose; a cast or a proposal by
\* an identity that may not is answered with the 403 as soon as getUser has
\* answered, changes no ballot, no counter and no proposal, and announces nothing.
C20_Eligibility ==
  [][/\ \A b \in DOMAIN activeVoteUsers' \ DOMAIN activeVoteUsers : MayVote(b[1])
     /\ \A v \in DOMAIN activeVotes' \ DOMAIN activeVotes :
          MayVote(activeVotes'[v].proposedBy)
     /\ \A k \in Calls :
          (/\ k.h \in {"cast", "propose"}
           /\ Requester(k) \in DOMAIN users
           /\ ~MayVote(Requester(k))
           /\ (CastVoteStep(k) \/ CreateVoteStep(k))) =>
            /\ UNCHANGED <<activeVotes, activeVoteUsers, currentVoteId>>
            /\ out'.event = "none"
            /\ out'.status = Forbidden
    ]_vars

\* C20 witness: an identity that proposed while it held "3.4.12" has moved to a
\* private channel and has just been refused a ballot.
C20_Witness ==
  /\ out.op = "cast"
  /\ out.status = Forbidden
  /\ IsPrivate(users[out.about])
  /\ \E v \in DOMAIN activeVotes :
       v # sampleVote.id /\ activeVotes[v].proposedBy = out.about
  /\ BallotsOf(out.about) = {}

\* a message older than the retention window at time t
Expired(m, t) == m.createdAt < t - RetentionDays

\* C21: right after the purge sweep of a createMessage, and after the append that
\* follows it, the log holds no message older than the seven-day window, so
\* neither getRecentMessages nor any channel's getRecentMessagesByAccessCode
\* returns one; every message the sweep removed was older than the window, every
\* other message is left as it was, and the message being created goes into the
\* log under the new id with the current time.
C21_Retention ==
  [][(messages' # messages) =>
       /\ \A i \in DOMAIN messages' : ~Expired(messages'[i], now')
       /\ \A i \in getRecentMessages(messages') : ~Expired(messages'[i], now')
       /\ \A code \in {NULL} \cup CodeInputs :
            \A i \in getRecentMessagesByAccessCode(messages', code) :
              ~Expired(messages'[i], now')
       /\ \A i \in DOMAIN messages \ DOMAIN messages' : Expired(messages[i], now)
       /\ \A i \in DOMAIN messages \cap DOMAIN messages' : messages'[i] = messages[i]
       /\ \A i \in DOMAIN messages' \ DOMAIN messages :
            i = currentMessageId /\ messages'[i].createdAt = now']_vars

\* a submission whose sweep removed an expired message, kept one of an earlier day
\* that is still inside the window, and appended the new one
C21_Witness ==
  /\ out.event = "newMessage"
  /\ out.ref \in DOMAIN messages
  /\ \E i \in DOMAIN messages : i # out.ref /\ messages[i].createdAt < now
  /\ \E i \in 1..(out.ref - 1) : i \notin DOMAIN messages

\* the author of a stored message, as createMessage embedded it
AuthorOf(m) == messages[m].user

\* C22: the history returned to a requester holding private access code K contains
\* only messages whose author is a code account with access code K; the history
\* returned to a full account or to a "3.4.12" requester contains only messages
\* whose author is a full account or a "3.4.12" code account; and a message of a
\* private channel appears in no other channel's history.
C22_HistoryIsolation ==
  (out.op = "history" /\ out.status = "ok") =>
    LET requester == users[out.about]
    IN  /\ IsPrivate(requester) =>
             \A m \in out.reply :
               /\ AuthorOf(m).accountType = "code"
               /\ AuthorOf(m).accessCode = requester.accessCode
        /\ (IsElevated(requester) \/ IsReservedUser(requester)) =>
             \A m \in out.reply : IsElevated(AuthorOf(m)) \/ IsReservedUser(AuthorOf(m))
        /\ \A m \in out.reply :
             IsPrivate(AuthorOf(m)) =>
               IsPrivate(requester) /\ requester.accessCode = AuthorOf(m).accessCode

\* a private requester is returned a message of its channel while the log also
\* holds a message of another private channel, which is left out
C22_Witness ==
  /\ out.op = "history"
  /\ out.status = "ok"
  /\ IsPrivate(users[out.about])
  /\ out.reply # {}
  /\ \E m \in DOMAIN messages \ out.reply : IsPrivate(AuthorOf(m))

\* C23: a connection that closes without ever having completed authenticate
\* changes no identity state: no isOnline flag is modified, no registry entry is
\* added or removed, no userOffline (nor any other event) is emitted, and the
\* handler awaits nothing.
C23_SilentClose ==
  [][\A c \in ConnIds :
       (conn[c].userId = 0 /\ Close(c)) =>
         /\ users' = users
         /\ connectedClients' = connectedClients
         /\ pending' = pending
         /\ out'.event = "none"
         /\ out'.recv = {}]_vars

\* an unauthenticated connection has just closed while another connection's
\* identity is registered and online
C23_Witness ==
  /\ out.op = "close"
  /\ conn[out.conn].readyState = "CLOSED"
  /\ conn[out.conn].userId = 0
  /\ \E k \in LiveKeys : users[k].isOnline /\ connectedClients[k] # out.conn

\* C24: every userOnline event carries a complete and current snapshot of the
\* identity that just came online: isOnline is true, and accountType, accessCode
\* and rank are the store's values at the time of emission, also when the identity
\* reconnects after an earlier disconnect.
C24_OnlineSnapshot ==
  out.event = "userOnline" =>
    /\ out.payload.id = out.about
    /\ out.payload.isOnline
    /\ out.payload.accountType = users[out.about].accountType
    /\ out.payload.accessCode = users[out.about].accessCode
    /\ out.payload.rank = users[out.about].rank

\* C25: a ballot is accepted only while the proposal has not expired: once its
\* endsAt has passed, a cast records no ballot for it and changes none of its
\* counters.
C25_VotingPeriod ==
  [][\A v \in DOMAIN activeVotes :
       activeVotes[v].endsAt < now =>
         /\ Ballots(v)' = Ballots(v)
         /\ activeVotes'[v] = activeVotes[v]]_vars

\* C26: the first identity created gets rank 0 and every identity created after it
\* through /api/register gets rank 10, so at most one identity is ever created
\* with rank 0, however the registration requests overlap.
C26_FirstIdentity ==
  /\ \A u \in DOMAIN users : users[u].rank = IF u = 1 THEN 0 ELSE 10
  /\ Cardinality({u \in DOMAIN users : users[u].rank = 0}) <= 1

\* C26 witness: two registrations under one username have both gone through, so
\* the second had passed getUserByUsername before the first called createUser:
\* the first identity has rank 0 and the second, just created, rank 10.
C26_Witness ==
  /\ out.op = "register"
  /\ out.status = "ok"
  /\ out.about = 2
  /\ DOMAIN users = {1, 2}
  /\ users[1].accountType = "full"
  /\ users[2].accountType = "full"
  /\ users[1].username = users[2].username
  /\ users[1].rank = 0
  /\ users[2].rank = 10

\* C27: for any two messages delivered to the same connection, the newMessage of
\* the one with the smaller id is delivered first, however the submissions
\* (WebSocket and REST) overlap: a newMessage written to a connection has a
\* greater id than the one written to it before.
C27_DeliveryOrder ==
  [][\A c \in ConnIds : wire'[c] # wire[c] => wire'[c] > wire[c]]_vars

\* C27 witness: two frames came in one chunk and both are in the log; the
\* newMessage of the second has just been written to a connection that was
\* written the first one before it.
C27_Witness ==
  /\ out.event = "newMessage"
  /\ out.op = "message"
  /\ out.ref > 1
  /\ out.ref - 1 \in DOMAIN messages
  /\ messages[out.ref - 1].createdAt = messages[out.ref].createdAt
  /\ \E k \in out.recv : wire[connectedClients[k]] = out.ref

\* C28: a ballot is recorded for an existing proposal and adds one to its counters;
\* the voteUpdate that ends a successful cast goes to every live connection and
\* carries {yes, no, total} with total = yes + no, the counts being the proposal's
\* stored counters, the ballot just cast included; a rejected cast (already voted,
\* ineligible, unknown identity) emits no voteUpdate.
C28_VoteUpdate ==
  [][/\ \A userId \in UserIds, voteId \in VoteIds :
          (BallotKey(userId, voteId) \in DOMAIN activeVoteUsers' \ DOMAIN activeVoteUsers) =>
            /\ voteId \in DOMAIN activeVotes'
            /\ activeVotes'[voteId].yesVotes + activeVotes'[voteId].noVotes
                 = activeVotes[voteId].yesVotes + activeVotes[voteId].noVotes + 1
     /\ out'.event = "voteUpdate" =>
          /\ out'.recv = LiveKeys'
          /\ out'.ref \in DOMAIN activeVotes'
          /\ BallotKey(out'.about, out'.ref) \in DOMAIN activeVoteUsers'
          /\ out'.reply = {[yes |-> activeVotes'[out'.ref].yesVotes,
                            no |-> activeVotes'[out'.ref].noVotes,
                            total |-> activeVotes'[out'.ref].yesVotes
                                        + activeVotes'[out'.ref].noVotes]}
     /\ (out'.op = "cast" /\ out'.status # "ok") =>
          /\ out'.event = "none"
          /\ out'.recv = {}
          /\ activeVoteUsers' = activeVoteUsers]_vars

\* C29: every createMessage assigns an id strictly greater than every id assigned
\* before (all of which lie below currentMessageId), an id is never used again,
\* purges or not, and a stored message's id, author, body and createdAt never
\* change.
C29_MonotonicIds ==
  /\ [](\A m \in DOMAIN messages : m < currentMessageId /\ messages[m].id = m)
  /\ [][/\ currentMessageId' >= currentMessageId
        /\ \A m \in DOMAIN messages' \ DOMAIN messages :
             m >= currentMessageId /\ m < currentMessageId'
        /\ \A m \in DOMAIN messages \cap DOMAIN messages' :
             /\ messages'[m].id = messages[m].id
             /\ messages'[m].userId = messages[m].userId
             /\ messages'[m].user = messages[m].user
             /\ messages'[m].content = messages[m].content
             /\ messages'[m].createdAt = messages[m].createdAt]_vars

\* the log after a purge: the message just stored has the latest id, an earlier
\* message is still there under its own id and an id below both is gone for good
C29_Witness ==
  /\ currentMessageId = out.ref + 1
  /\ out.ref \in DOMAIN messages
  /\ \E m \in DOMAIN messages : m < out.ref /\ messages[m].id = m
  /\ \E m \in 1..out.ref : m \notin DOMAIN messages

\* connection c is the registered handle of the identity it authenticated as
IsCurrentHandle(c) ==
  /\ conn[c].userId # 0
  /\ conn[c].userId \in DOMAIN connectedClients
  /\ connectedClients[conn[c].userId] = c

\* C31: a 'message' frame is accepted only from a connection that is the
\* registered handle of its identity: the handler of a frame from a connection
\* that a newer authenticate has superseded, or whose identity's registry entry
\* has been removed, appends nothing and broadcasts nothing.
C31_SupersededSender ==
  [][\A k \in Calls :
       (k.h = "message" /\ ~IsCurrentHandle(k.c) /\ WsMessageStep(k)) =>
         /\ messages' = messages
         /\ currentMessageId' = currentMessageId
         /\ out'.event = "none"
         /\ out'.recv = {}]_vars

\* C32: an identity created with accountType "code" (through /api/code-access or
\* /api/old-login) is never created with rank 0, whatever the number of
\* identities the store holds at that time.
C32_CodeUserRank ==
  [][\A u \in DOMAIN users' \ DOMAIN users :
       users'[u].accountType = "code" => users'[u].rank # 0]_vars

\* C33: usernames are unique in every reachable state: no two stored identities
\* hold the same username, whatever the interleaving of concurrent registrations
\* and code-access requests between the existence check and createUser.
C33_UniqueUsernames ==
  \A a, b \in DOMAIN users : users[a].username = users[b].username => a = b

\* C34: for every entry (id -> connection) of connectedClients, the connection's
\* own userId is id and its cached user snapshot has that id; a connection is the
\* handle of at most one identity.
C34_RegistryAgreement ==
  /\ \A id \in DOMAIN connectedClients :
       /\ conn[connectedClients[id]].userId = id
       /\ conn[connectedClients[id]].user.id = id
  /\ \A a, b \in DOMAIN connectedClients :
       connectedClients[a] = connectedClients[b] => a = b

\* C35: once the close of a connection has been processed to its end,
\* connectedClients has no entry whose handle is that connection, and no identity
\* it was the handle of remains marked online, including when the connection had
\* authenticated as more than one identity.
C35_CloseClearsHandle ==
  [][\A k \in Calls :
       (k.h = "close" /\ CloseStep(k)) =>
         /\ \A id \in DOMAIN connectedClients' : connectedClients'[id] # k.c
         /\ \A id \in DOMAIN connectedClients :
              connectedClients[id] = k.c => ~users'[id].isOnline]_vars

\* C36: when an identity has authenticated on a first connection and then on a
\* second, closing the first while the second stays open leaves the registry
\* entry of the identity pointing to the second, leaves the identity online and
\* emits no userOffline for it.
C36_SupersededClose ==
  [][/\ \A c \in ConnIds :
          (/\ conn[c].userId \in DOMAIN connectedClients
           /\ connectedClients[conn[c].userId] # c
           /\ conn[connectedClients[conn[c].userId]].readyState = "OPEN"
           /\ conn[connectedClients[conn[c].userId]].userId = conn[c].userId
           /\ Close(c)) =>
            /\ conn[c].userId \in DOMAIN connectedClients'
            /\ connectedClients'[conn[c].userId] = connectedClients[conn[c].userId]
            /\ users'[conn[c].userId].isOnline
     /\ \A k \in Calls :
          (/\ k.h = "close"
           /\ \E c \in ConnIds \ {k.c} :
                conn[c].readyState = "OPEN" /\ conn[c].userId = k.userId
           /\ CloseStep(k)) =>
            out'.event # "userOffline"]_vars

\* C37: every ballot in the ledger belongs to an existing proposal: a cast that
\* names a proposal id that does not exist records no ballot, so it can never
\* prevent the identity from voting on a proposal created later under that id.
C37_BallotsHaveProposal ==
  \A k \in DOMAIN activeVoteUsers : k[2] \in DOMAIN activeVotes

\* C38: a cast whose choice is neither "yes" nor "no" is rejected and records no
\* ballot; every ballot recorded for an existing proposal adds exactly 1 to exactly
\* one of yesVotes and noVotes of that proposal.
C38_ChoiceValidated ==
  [][\A k \in Calls :
       (k.h = "cast" /\ CastVoteStep(k)) =>
         /\ k.vote \notin {"yes", "no"} =>
              /\ activeVoteUsers' = activeVoteUsers
              /\ out'.status # "ok"
         /\ (activeVoteUsers' # activeVoteUsers /\ k.voteId \in DOMAIN activeVotes) =>
              \/ /\ activeVotes'[k.voteId].yesVotes = activeVotes[k.voteId].yesVotes + 1
                 /\ activeVotes'[k.voteId].noVotes = activeVotes[k.voteId].noVotes
              \/ /\ activeVotes'[k.voteId].yesVotes = activeVotes[k.voteId].yesVotes
                 /\ activeVotes'[k.voteId].noVotes = activeVotes[k.voteId].noVotes + 1]_vars

\* C39: history and live delivery decide visibility in the same way: when a
\* message is stored and fanned out, a connected identity receives the newMessage
\* exactly when the message is in the history read for that identity's partition,
\* for every combination of accountType and accessCode of author and reader.
C39_HistoryMatchesDelivery ==
  (out.event = "newMessage" /\ out.ref \in DOMAIN messages) =>
    \A r \in ConnectedIdentities :
      (r \in Receivers) <=>
        (out.ref \in getRecentMessagesByAccessCode(messages, PartitionOf(users[r])))

\* C40: no payload sent to a client carries passwordHash: the identity a userOnline
\* or userOffline event carries has no passwordHash field.
C40_NoPasswordHash ==
  out.payload # NoUser => "passwordHash" \notin DOMAIN out.payload

====
